---------------------------- MODULE Spec2Model ----------------------------
(***************************************************************************)
(* Form connector: the sliding-window rate limiter (lib/rateLimit), the    *)
(* submission ingestion endpoint (POST /api/submit/{connectorId}), the     *)
(* destination handlers it calls (lib/destinations) and the payload        *)
(* validator (lib/validation).                                             *)
(*                                                                         *)
(* JavaScript runs every handler to completion between two awaits, so one  *)
(* action of the model is the code between two suspension points.          *)
(***************************************************************************)
EXTENDS Integers, Sequences, FiniteSets, TLC

(***************************************************************************)
(* Bounds of the model.                                                    *)
(***************************************************************************)
\* Date.now() ranges over 0..MaxTime (milliseconds, scaled).
MaxTime == 3
\* The call site's maxRequests is drawn from 0..MaxLimit (the endpoint passes 100).
MaxLimit == 2
\* The call site's windowMs is drawn from 1..MaxWindow (the endpoint passes 3600000).
MaxWindow == 2
\* The sweep threshold of the limiter, 1000 in the source, scaled so that a
\* model run can track more identifiers than the threshold.
CLEANUP_THRESHOLD == 2
\* A payload given to validateSubmission is made of at most MaxRuns runs of
\* fields of one shape.
MaxRuns == 2
\* the longest field value of a rendered notification, in characters
MaxText == 2

\* the keys of the map: enough of them for the map to outgrow the sweep threshold
Identifiers == {1, 2, 3}
Time == 0..MaxTime
None == [none |-> TRUE]
\* The map treats every key alike: the history of admissions is kept for one
\* identifier, the others supply the traffic around it.
Probe == CHOOSE i \in Identifiers : \A j \in Identifiers : i <= j

VARIABLES
  requestMap,   \* Map<identifier, Array<timestamp>>: a function on the tracked identifiers
  clock,        \* the value Date.now() returns
  maxRequests,  \* the limit the callers pass to rateLimit
  windowMs,     \* the window the callers pass to rateLimit
  rl,           \* the last call of the limiter: its inputs, what it read and what it returned
  hist,         \* the times of the last admitted calls of identifier Probe (oldest first)
  lastAdm,      \* the remaining value of the last admitted call of identifier Probe
  connectors,   \* the connectors table: identifier -> row, or NoRow
  submissions,  \* the submissions table: a sequence of rows, a row's id being its index
  pc,           \* per request, the await at which POST is suspended
  req,          \* per request, its connectorId (route parameter) and its body
  rateLimitResult, \* per request, POST's local rateLimitResult
  connector,    \* per request, POST's local connector
  submission,   \* per request, POST's local submission (the id of the inserted row)
  idx,          \* per request, the position of the for-of loop in flatDestinations
  results,      \* per request, POST's local results
  response,     \* per request, the response returned
  trace,        \* per request, the steps it has taken, in order
  errorLog,     \* per request, what it wrote with console.error, in order
  invocations,  \* per request, the handler calls it made and how each ended, in order
  listing,      \* what the last GET /api/submissions returned
  hcall,        \* the destination handler call under way
  vcall,        \* the call of validateSubmission under way: its argument and what it does
  notification  \* the notification a handler builds: its inputs and what it renders

limiterVars == <<requestMap, clock, maxRequests, windowMs>>
ghostVars == <<rl, hist, lastAdm>>
otherVars == <<listing, hcall, vcall, notification>>
ingestVars == <<connectors, submissions, pc, req, rateLimitResult, connector, submission,
                idx, results, response, trace, errorLog, invocations, otherVars>>
vars == <<requestMap, clock, maxRequests, windowMs, rl, hist, lastAdm,
          connectors, submissions, pc, req, rateLimitResult, connector, submission,
          idx, results, response, trace, errorLog, invocations, listing, hcall, vcall, notification>>

(***************************************************************************)
(* Helpers                                                                 *)
(***************************************************************************)
Range(s) == {s[i] : i \in 1..Len(s)}
Max(a, b) == IF a >= b THEN a ELSE b
SetMin(S) == CHOOSE x \in S : \A y \in S : x <= y
SeqMin(s) == CHOOSE x \in Range(s) : \A y \in Range(s) : x <= y
\* Math.min(...array)
MathMin(s) == SeqMin(s)
\* the last n elements of s
LastN(s, n) == IF Len(s) <= n THEN s ELSE SubSeq(s, Len(s) - n + 1, Len(s))
\* Map.get(key) || []
MapGet(map, identifier) == IF identifier \in DOMAIN map THEN map[identifier] ELSE <<>>
\* Map.set(key, value)
MapSet(map, identifier, value) ==
  [i \in (DOMAIN map) \cup {identifier} |-> IF i = identifier THEN value ELSE map[i]]

(***************************************************************************)
(* lib/rateLimit                                                           *)
(***************************************************************************)
\* (a variant that keeps a timestamp lying exactly on the window's start)
FilterValid_Inclusive(timestamps, windowStart) ==
  SelectSeq(timestamps, LAMBDA timestamp : timestamp >= windowStart)

\* timestamps.filter(timestamp => timestamp > windowStart)
FilterValid(timestamps, windowStart) ==
  SelectSeq(timestamps, LAMBDA timestamp : timestamp > windowStart)

\* (a variant that admits one request too many)
Allowed_Inclusive(requestCount, maxReq) == requestCount <= maxReq

\* const allowed = requestCount < maxRequests
Allowed(requestCount, maxReq) == requestCount < maxReq

\* (a variant without the clamp at zero)
Remaining_Unclamped(requestCount, maxReq, allowed) ==
  maxReq - requestCount - (IF allowed THEN 0 ELSE 1)

\* Math.max(0, maxRequests - requestCount - (allowed ? 0 : 1))
Remaining(requestCount, maxReq, allowed) ==
  Max(0, maxReq - requestCount - (IF allowed THEN 0 ELSE 1))

\* (a variant that counts the window from the newest timestamp)
ResetTime_Newest(validTimestamps, now, window) ==
  (IF Len(validTimestamps) > 0 THEN validTimestamps[Len(validTimestamps)] ELSE now) + window

\* oldestTimestamp + windowMs, the oldest being `now` when the array is empty
ResetTime(validTimestamps, now, window) ==
  (IF Len(validTimestamps) > 0 THEN MathMin(validTimestamps) ELSE now) + window

\* (a variant that sweeps as soon as the threshold is reached)
NeedsCleanup_AtThreshold(size) == size >= CLEANUP_THRESHOLD

\* requestMap.size > CLEANUP_THRESHOLD
NeedsCleanup(size) == size > CLEANUP_THRESHOLD

\* cleanupExpiredEntries: every entry is filtered; an entry left empty is deleted
cleanupExpiredEntries(map, window, now) ==
  LET windowStart == now - window
      kept == {i \in DOMAIN map : Len(FilterValid(map[i], windowStart)) # 0}
  IN  [i \in kept |-> FilterValid(map[i], windowStart)]

\* (a variant that counts the valid timestamps but stores the unfiltered array)
rateLimit_NoPrune(map, identifier, maxReq, window, now, cleanupNow) ==
  LET timestamps      == MapGet(map, identifier)
      windowStart     == now - window
      validTimestamps == FilterValid(timestamps, windowStart)
      requestCount    == Len(validTimestamps)
      allowed         == Allowed(requestCount, maxReq)
      stored          == IF allowed THEN Append(timestamps, now) ELSE timestamps
      map1            == MapSet(map, identifier, stored)
      sweep           == NeedsCleanup(Cardinality(DOMAIN map1))
  IN  [ allowed      |-> allowed,
        remaining    |-> Remaining(requestCount, maxReq, allowed),
        resetTime    |-> ResetTime(IF allowed THEN Append(validTimestamps, now)
                                              ELSE validTimestamps, now, window),
        requestCount |-> requestCount,
        swept        |-> sweep,
        sizeAtEnd    |-> Cardinality(DOMAIN map1),
        map          |-> IF sweep THEN cleanupExpiredEntries(map1, window, cleanupNow)
                                  ELSE map1 ]

\* (a variant that records the rejected requests too)
rateLimit_CountRejected(map, identifier, maxReq, window, now, cleanupNow) ==
  LET timestamps      == MapGet(map, identifier)
      windowStart     == now - window
      validTimestamps == FilterValid(timestamps, windowStart)
      requestCount    == Len(validTimestamps)
      allowed         == Allowed(requestCount, maxReq)
      stored          == Append(validTimestamps, now)
      map1            == MapSet(map, identifier, stored)
      sweep           == NeedsCleanup(Cardinality(DOMAIN map1))
  IN  [ allowed      |-> allowed,
        remaining    |-> Remaining(requestCount, maxReq, allowed),
        resetTime    |-> ResetTime(stored, now, window),
        requestCount |-> requestCount,
        swept        |-> sweep,
        sizeAtEnd    |-> Cardinality(DOMAIN map1),
        map          |-> IF sweep THEN cleanupExpiredEntries(map1, window, cleanupNow)
                                  ELSE map1 ]

\* (a variant in which a rejected request takes the place of the oldest
\* counted one, so that hammering a full window keeps it full)
rateLimit_Penalise(map, identifier, maxReq, window, now, cleanupNow) ==
  LET timestamps      == MapGet(map, identifier)
      windowStart     == now - window
      validTimestamps == FilterValid(timestamps, windowStart)
      requestCount    == Len(validTimestamps)
      allowed         == Allowed(requestCount, maxReq)
      stored          == IF allowed THEN Append(validTimestamps, now)
                         ELSE IF validTimestamps = << >> THEN validTimestamps
                         ELSE Append(Tail(validTimestamps), now)
      map1            == MapSet(map, identifier, stored)
      sweep           == NeedsCleanup(Cardinality(DOMAIN map1))
  IN  [ allowed      |-> allowed,
        remaining    |-> Remaining(requestCount, maxReq, allowed),
        resetTime    |-> ResetTime(stored, now, window),
        requestCount |-> requestCount,
        swept        |-> sweep,
        sizeAtEnd    |-> Cardinality(DOMAIN map1),
        map          |-> IF sweep THEN cleanupExpiredEntries(map1, window, cleanupNow)
                                  ELSE map1 ]

\* (a variant with one budget for all identifiers: the count is that of the
\* valid timestamps of the whole map)
rateLimit_GlobalCount(map, identifier, maxReq, window, now, cleanupNow) ==
  LET timestamps      == MapGet(map, identifier)
      windowStart     == now - window
      validTimestamps == FilterValid(timestamps, windowStart)
      others          == {i \in DOMAIN map : i # identifier /\ FilterValid(map[i], windowStart) # << >>}
      requestCount    == Len(validTimestamps) + Cardinality(others)
      allowed         == Allowed(requestCount, maxReq)
      stored          == IF allowed THEN Append(validTimestamps, now) ELSE validTimestamps
      map1            == MapSet(map, identifier, stored)
      sweep           == NeedsCleanup(Cardinality(DOMAIN map1))
  IN  [ allowed      |-> allowed,
        remaining    |-> Remaining(requestCount, maxReq, allowed),
        resetTime    |-> ResetTime(stored, now, window),
        requestCount |-> requestCount,
        swept        |-> sweep,
        sizeAtEnd    |-> Cardinality(DOMAIN map1),
        map          |-> IF sweep THEN cleanupExpiredEntries(map1, window, cleanupNow)
                                  ELSE map1 ]

\* rateLimit(identifier, maxRequests, windowMs) on the map `map`, Date.now()
\* returning `now` in rateLimit and `cleanupNow` in cleanupExpiredEntries
rateLimit(map, identifier, maxReq, window, now, cleanupNow) ==
  LET timestamps      == MapGet(map, identifier)
      windowStart     == now - window
      validTimestamps == FilterValid(timestamps, windowStart)
      requestCount    == Len(validTimestamps)
      allowed         == Allowed(requestCount, maxReq)
      stored          == IF allowed THEN Append(validTimestamps, now) ELSE validTimestamps
      map1            == MapSet(map, identifier, stored)
      sweep           == NeedsCleanup(Cardinality(DOMAIN map1))
  IN  [ allowed      |-> allowed,
        remaining    |-> Remaining(requestCount, maxReq, allowed),
        resetTime    |-> ResetTime(stored, now, window),
        requestCount |-> requestCount,
        swept        |-> sweep,
        sizeAtEnd    |-> Cardinality(DOMAIN map1),
        map          |-> IF sweep THEN cleanupExpiredEntries(map1, window, cleanupNow)
                                  ELSE map1 ]

\* getRateLimitStatus(identifier, maxRequests, windowMs): reads, stores nothing
getRateLimitStatus(map, identifier, maxReq, window, now) ==
  LET timestamps      == MapGet(map, identifier)
      windowStart     == now - window
      validTimestamps == FilterValid(timestamps, windowStart)
      requestCount    == Len(validTimestamps)
  IN  [ allowed      |-> requestCount < maxReq,
        remaining    |-> Max(0, maxReq - requestCount),
        resetTime    |-> ResetTime(validTimestamps, now, window),
        requestCount |-> requestCount ]

(***************************************************************************)
(* The limiter as a state machine                                          *)
(***************************************************************************)
InitLimiter ==
  /\ requestMap = << >>
  /\ clock = 0
  /\ maxRequests \in 0..MaxLimit
  /\ windowMs \in 1..MaxWindow
  /\ rl = [op |-> "none"]
  /\ hist = << >>
  /\ lastAdm = None

\* the values Date.now() can return to the next call: the clock never runs
\* backwards, and moves by at most one tick from one call to the next
Now == {t \in Time : t = clock \/ t = clock + 1}

\* the times cleanupExpiredEntries' own Date.now() can return
CleanupTimes(now) == {t \in {now, now + 1} : t <= MaxTime}

\* a call rateLimit(identifier, maxRequests, windowMs)
RateLimitCall(identifier) ==
  \E now \in Now : \E cleanupNow \in CleanupTimes(now) :
  \E res \in {rateLimit(requestMap, identifier, maxRequests, windowMs, now, cleanupNow)} :
    LET h   == IF res.allowed /\ identifier = Probe
                 THEN LastN(Append(hist, now), maxRequests) ELSE hist
        inWindow == {t \in Range(h) : t > now - windowMs}
    IN  /\ requestMap' = res.map
        /\ clock' = IF res.swept THEN cleanupNow ELSE now
        /\ rl' = [ op |-> "rateLimit", identifier |-> identifier, now |-> now,
                   tracked |-> identifier \in DOMAIN requestMap,
                   pre |-> MapGet(requestMap, identifier),
                   histBefore |-> IF identifier = Probe THEN hist ELSE << >>,
                   prev |-> IF identifier = Probe THEN lastAdm ELSE None,
                   allowed |-> res.allowed, remaining |-> res.remaining,
                   resetTime |-> res.resetTime, requestCount |-> res.requestCount,
                   swept |-> res.swept, sizeAtEnd |-> res.sizeAtEnd,
                   cleanupNow |-> IF res.swept THEN cleanupNow ELSE now ]
        /\ hist' = h
        /\ lastAdm' = IF res.allowed /\ identifier = Probe
                      THEN [rem |-> res.remaining,
                            oldest |-> CHOOSE t \in inWindow : \A u \in inWindow : t <= u]
                      ELSE lastAdm
        /\ UNCHANGED <<maxRequests, windowMs>>
        /\ UNCHANGED ingestVars

\* a call getRateLimitStatus(identifier, maxRequests, windowMs)
StatusCall(identifier) ==
  \E now \in Now :
  \E res \in {getRateLimitStatus(requestMap, identifier, maxRequests, windowMs, now)} :
      /\ rl' = [ op |-> "status", identifier |-> identifier, now |-> now,
                 tracked |-> identifier \in DOMAIN requestMap,
                 pre |-> MapGet(requestMap, identifier),
                 histBefore |-> IF identifier = Probe THEN hist ELSE << >>,
                 prev |-> IF identifier = Probe THEN lastAdm ELSE None,
                 allowed |-> res.allowed, remaining |-> res.remaining,
                 resetTime |-> res.resetTime, requestCount |-> res.requestCount,
                 swept |-> FALSE, sizeAtEnd |-> Cardinality(DOMAIN requestMap),
                 cleanupNow |-> now ]
      /\ clock' = now
      /\ UNCHANGED <<requestMap, maxRequests, windowMs, hist, lastAdm>>
      /\ UNCHANGED ingestVars

NextRL ==
  \/ \E identifier \in Identifiers : RateLimitCall(identifier)
  \/ \E identifier \in Identifiers : StatusCall(identifier)

(***************************************************************************)
(* app/api/submit/[connectorId]: POST                                      *)
(***************************************************************************)
\* two ingestion requests, in flight at the same time
Requests == {1, 2}
NoRow == [none |-> TRUE]

\* the keys of destinationHandlers
HandlerTypes == {"email", "slack", "sms", "sheets", "webhook"}
\* handleSms and handleWebhook always throw
Unimplemented == {"sms", "webhook"}
\* destinationHandlers is an object literal: a lookup by a name it inherits
\* from Object.prototype is truthy too (constructor is one such name, and
\* Object(destination, formData, connector) returns)
InheritedKeys == {"constructor"}

\* request bodies: a JSON object that passes validateSubmission, JSON that
\* fails it, and text request.json() cannot parse
Bodies == {"ok", "invalid", "unparseable"}

\* JSON values of the destinations column: null, an array [array |-> <<...>>],
\* or an object, given by its fields
JsonNull == [null |-> TRUE]
IsNull(value) == "null" \in DOMAIN value
JsonArray(elements) == [array |-> elements]

\* destination lists stored on a connector: "fax" has no handler, a type may
\* occur twice, and an element may be null
DestLists ==
  { << >>,
    << [type |-> "email", enabled |-> TRUE] >>,
    << [type |-> "sms", enabled |-> TRUE], [type |-> "email", enabled |-> TRUE] >>,
    << [type |-> "email", enabled |-> FALSE], [type |-> "fax", enabled |-> TRUE] >>,
    << [type |-> "email", enabled |-> TRUE], [type |-> "email", enabled |-> TRUE] >>,
    << [type |-> "constructor", enabled |-> TRUE] >>,
    << [type |-> "email", enabled |-> TRUE], JsonNull >> }

\* what PUT and POST /api/connectors store in the column: the request's
\* `destinations`, whatever JSON it is. A list may be stored double-nested, as
\* [[...]], and the column may hold null or an object instead of a list.
DestinationValues ==
  { JsonArray(list) : list \in DestLists }
    \cup { JsonArray(<< JsonArray(<< [type |-> "email", enabled |-> TRUE] >>) >>),
           JsonNull,
           [type |-> "email", enabled |-> TRUE] }

\* rows of the connectors table; is_active is a nullable boolean column, and
\* "absent" stands for a row read without the property (undefined)
ConnectorRows ==
  [is_active : {"true"}, destinations : DestinationValues]
    \cup [is_active : {"false", "null", "absent"},
          destinations : { JsonArray(<< [type |-> "email", enabled |-> TRUE] >>) }]

\* the connectors table: identifier Probe may have a row, the others have none
ConnectorTables ==
  { [i \in Identifiers |-> IF i = Probe THEN row ELSE NoRow] :
      row \in ConnectorRows \cup {NoRow} }

IngestIdle ==
  /\ submissions = << >>
  /\ pc = [r \in Requests |-> "idle"]
  /\ req = [r \in Requests |-> None]
  /\ rateLimitResult = [r \in Requests |-> None]
  /\ connector = [r \in Requests |-> None]
  /\ submission = [r \in Requests |-> None]
  /\ idx = [r \in Requests |-> 0]
  /\ results = [r \in Requests |-> << >>]
  /\ response = [r \in Requests |-> None]
  /\ trace = [r \in Requests |-> << >>]
  /\ errorLog = [r \in Requests |-> << >>]
  /\ invocations = [r \in Requests |-> << >>]

\* return <a response>
Return(r, status, code) ==
  /\ response' = [response EXCEPT ![r] = [status |-> status, code |-> code]]
  /\ pc' = [pc EXCEPT ![r] = "done"]

\* console.error(...)
ConsoleError(r, what) == errorLog' = [errorLog EXCEPT ![r] = Append(@, what)]

\* (a variant without the catch at the end of POST: the exception leaves the
\* function and the request ends without a response of the endpoint)
OuterCatch_Rethrow(r) ==
  /\ pc' = [pc EXCEPT ![r] = "done"]
  /\ UNCHANGED response

\* the catch at the end of POST answers an exception thrown anywhere in the try
OuterCatch(r) == Return(r, 500, "INTERNAL_SERVER_ERROR")

\* an awaited call of the store resolves with data, resolves with an error,
\* or rejects
StoreOutcomes == {"data", "error", "rejects"}

\* validateSubmission(formData) returns (does not throw)
ValidationPasses(body) == body = "ok"

\* (a variant that takes whatever it reads for a body)
BodyParses_Lenient(body) == TRUE

\* await request.json() resolves (the body is JSON)
BodyParses(body) == body # "unparseable"

\* a request arrives; POST awaits context.params and request.json()
\* (requests are numbered in their order of arrival)
Receive(r) ==
  /\ pc[r] = "idle"
  /\ \A q \in Requests : q < r => pc[q] # "idle"
  /\ pc' = [pc EXCEPT ![r] = "parse"]
  /\ UNCHANGED <<limiterVars, ghostVars, otherVars, invocations, connectors, submissions, req,
                 rateLimitResult, connector, submission, idx, results, response,
                 trace, errorLog>>

\* (a variant in which the limiter's count is not atomic with its append: a
\* request decides on the array as it was before the requests still in flight
\* appended to it)
ParseAndGates_StaleCount(r) ==
  /\ pc[r] = "parse"
  /\ \E id \in Identifiers, body \in Bodies \ {"unparseable"} :
     \E now \in Now :
     LET inFlight == {q \in Requests \ {r} : /\ pc[q] \notin {"idle", "parse", "done"}
                                             /\ req[q].connectorId = id}
         stale == [i \in DOMAIN requestMap |->
                     IF i = id
                     THEN SelectSeq(requestMap[i],
                            LAMBDA t : \A q \in inFlight : rateLimitResult[q].at # t)
                     ELSE requestMap[i]]
     IN
     \E res \in {rateLimit(stale, id, maxRequests, windowMs, now, now)} :
       /\ req' = [req EXCEPT ![r] = [connectorId |-> id, body |-> body]]
       /\ requestMap' = IF res.allowed
                        THEN MapSet(requestMap, id, Append(MapGet(requestMap, id), now))
                        ELSE requestMap
       /\ clock' = now
       /\ rateLimitResult' = [rateLimitResult EXCEPT ![r] =
            [allowed |-> res.allowed, remaining |-> res.remaining,
             resetTime |-> res.resetTime, at |-> now]]
       /\ IF ~res.allowed
          THEN /\ Return(r, 429, "RATE_LIMIT_EXCEEDED")
               /\ trace' = [trace EXCEPT ![r] = @ \o <<"rateLimit">>]
               /\ UNCHANGED errorLog
          ELSE IF ~ValidationPasses(body)
          THEN /\ Return(r, 400, "VALIDATION_ERROR")
               /\ trace' = [trace EXCEPT ![r] = @ \o <<"rateLimit", "validate">>]
               /\ ConsoleError(r, "Input validation failed")
          ELSE /\ pc' = [pc EXCEPT ![r] = "lookup"]
               /\ trace' = [trace EXCEPT ![r] = @ \o <<"rateLimit", "validate">>]
               /\ UNCHANGED <<response, errorLog>>
  /\ UNCHANGED <<maxRequests, windowMs, ghostVars, otherVars, invocations, connectors, submissions,
                 connector, submission, idx, results>>

\* (a variant without the validation gate)
ParseAndGates_NoValidation(r) ==
  /\ pc[r] = "parse"
  /\ \E id \in Identifiers, body \in Bodies \ {"unparseable"} :
     \E now \in Now : \E cleanupNow \in CleanupTimes(now) :
     \E res \in {rateLimit(requestMap, id, maxRequests, windowMs, now, cleanupNow)} :
       /\ req' = [req EXCEPT ![r] = [connectorId |-> id, body |-> body]]
       /\ requestMap' = res.map
       /\ clock' = IF res.swept THEN cleanupNow ELSE now
       /\ rateLimitResult' = [rateLimitResult EXCEPT ![r] =
            [allowed |-> res.allowed, remaining |-> res.remaining,
             resetTime |-> res.resetTime, at |-> now]]
       /\ trace' = [trace EXCEPT ![r] = @ \o <<"rateLimit">>]
       /\ IF ~res.allowed
          THEN Return(r, 429, "RATE_LIMIT_EXCEEDED")
          ELSE /\ pc' = [pc EXCEPT ![r] = "lookup"]
               /\ UNCHANGED response
  /\ UNCHANGED <<maxRequests, windowMs, ghostVars, otherVars, invocations, connectors, submissions,
                 connector, submission, idx, results, errorLog>>

\* (a variant that validates the payload before it asks the limiter)
ParseAndGates_ValidationFirst(r) ==
  /\ pc[r] = "parse"
  /\ \E id \in Identifiers, body \in Bodies :
       /\ req' = [req EXCEPT ![r] = [connectorId |-> id, body |-> body]]
       /\ IF ~BodyParses(body)
          THEN /\ OuterCatch(r)
               /\ ConsoleError(r, "Unexpected error")
               /\ UNCHANGED <<limiterVars, rateLimitResult, trace>>
          ELSE IF ~ValidationPasses(body)
          THEN /\ Return(r, 400, "VALIDATION_ERROR")
               /\ trace' = [trace EXCEPT ![r] = @ \o <<"validate">>]
               /\ ConsoleError(r, "Input validation failed")
               /\ UNCHANGED <<limiterVars, rateLimitResult>>
          ELSE \E now \in Now : \E cleanupNow \in CleanupTimes(now) :
               \E res \in {rateLimit(requestMap, id, maxRequests, windowMs,
                                     now, cleanupNow)} :
                 /\ requestMap' = res.map
                 /\ clock' = IF res.swept THEN cleanupNow ELSE now
                 /\ UNCHANGED <<maxRequests, windowMs>>
                 /\ rateLimitResult' = [rateLimitResult EXCEPT ![r] =
                      [allowed |-> res.allowed, remaining |-> res.remaining,
                       resetTime |-> res.resetTime, at |-> now]]
                 /\ IF ~res.allowed
                    THEN /\ Return(r, 429, "RATE_LIMIT_EXCEEDED")
                         /\ trace' = [trace EXCEPT ![r] = @ \o <<"rateLimit">>]
                         /\ UNCHANGED errorLog
                    ELSE IF ~ValidationPasses(body)
                    THEN /\ Return(r, 400, "VALIDATION_ERROR")
                         /\ trace' = [trace EXCEPT ![r] = @ \o <<"rateLimit", "validate">>]
                         /\ ConsoleError(r, "Input validation failed")
                    ELSE /\ pc' = [pc EXCEPT ![r] = "lookup"]
                         /\ trace' = [trace EXCEPT ![r] = @ \o <<"rateLimit", "validate">>]
                         /\ UNCHANGED <<response, errorLog>>
  /\ UNCHANGED <<ghostVars, otherVars, invocations, connectors, submissions, connector, submission,
                 idx, results>>

\* context.params and request.json() resolve (or request.json() throws, which
\* the outer catch answers); then, without suspending: rateLimit,
\* validateSubmission and the start of the connector query
ParseAndGates(r) ==
  /\ pc[r] = "parse"
  /\ \E id \in Identifiers, body \in Bodies :
       /\ req' = [req EXCEPT ![r] = [connectorId |-> id, body |-> body]]
       /\ IF ~BodyParses(body)
          THEN /\ OuterCatch(r)
               /\ ConsoleError(r, "Unexpected error")
               /\ UNCHANGED <<limiterVars, rateLimitResult, trace>>
          ELSE \E now \in Now : \E cleanupNow \in CleanupTimes(now) :
               \E res \in {rateLimit(requestMap, id, maxRequests, windowMs,
                                     now, cleanupNow)} :
                 /\ requestMap' = res.map
                 /\ clock' = IF res.swept THEN cleanupNow ELSE now
                 /\ UNCHANGED <<maxRequests, windowMs>>
                 /\ rateLimitResult' = [rateLimitResult EXCEPT ![r] =
                      [allowed |-> res.allowed, remaining |-> res.remaining,
                       resetTime |-> res.resetTime, at |-> now]]
                 /\ IF ~res.allowed
                    THEN /\ Return(r, 429, "RATE_LIMIT_EXCEEDED")
                         /\ trace' = [trace EXCEPT ![r] = @ \o <<"rateLimit">>]
                         /\ UNCHANGED errorLog
                    ELSE IF ~ValidationPasses(body)
                    THEN /\ Return(r, 400, "VALIDATION_ERROR")
                         /\ trace' = [trace EXCEPT ![r] = @ \o <<"rateLimit", "validate">>]
                         /\ ConsoleError(r, "Input validation failed")
                    ELSE /\ pc' = [pc EXCEPT ![r] = "lookup"]
                         /\ trace' = [trace EXCEPT ![r] = @ \o <<"rateLimit", "validate">>]
                         /\ UNCHANGED <<response, errorLog>>
  /\ UNCHANGED <<ghostVars, otherVars, invocations, connectors, submissions, connector, submission,
                 idx, results>>

\* (a variant whose active gate lets every found connector through)
IsActive_Truthy(row) == row.is_active # "false"

\* connector.is_active !== true is false
IsActive(row) == row.is_active = "true"

\* the connector query settles: it rejects (outer catch), not found (or a
\* query error), inactive, or the insert is started
Lookup(r) ==
  /\ pc[r] = "lookup"
  /\ \E outcome \in StoreOutcomes :
     LET row == IF outcome = "error" THEN NoRow ELSE connectors[req[r].connectorId]
     IN  IF outcome = "rejects"
         THEN /\ OuterCatch(r)
              /\ trace' = [trace EXCEPT ![r] = @ \o <<"lookup", "threw">>]
              /\ ConsoleError(r, "Unexpected error")
              /\ UNCHANGED connector
         ELSE IF row = NoRow
         THEN /\ Return(r, 404, "NOT_FOUND")
              /\ trace' = [trace EXCEPT ![r] = @ \o <<"lookup">>]
              /\ ConsoleError(r, "Connector not found")
              /\ UNCHANGED connector
         ELSE /\ connector' = [connector EXCEPT ![r] = row]
              /\ trace' = [trace EXCEPT ![r] = @ \o <<"lookup", "active">>]
              /\ UNCHANGED errorLog
              /\ IF ~IsActive(row)
                 THEN Return(r, 403, "CONNECTOR_INACTIVE")
                 ELSE /\ pc' = [pc EXCEPT ![r] = "insert"]
                      /\ UNCHANGED response
  /\ UNCHANGED <<limiterVars, ghostVars, otherVars, invocations, connectors, submissions, req,
                 rateLimitResult, submission, idx, results>>

\* Array.isArray(value)
IsArray(value) == "array" \in DOMAIN value

\* (a variant that processes the stored list as it is)
Flatten_NoUnwrap(column) ==
  IF IsNull(column) THEN JsonArray(<< >>) ELSE column

\* connector.destinations || [], and if its first element is itself an array,
\* that element is what is processed
Flatten(column) ==
  LET destinations == IF IsNull(column) THEN JsonArray(<< >>) ELSE column
  IN  IF /\ IsArray(destinations)
         /\ Len(destinations.array) > 0
         /\ IsArray(destinations.array[1])
      THEN destinations.array[1]
      ELSE destinations

\* destinationHandlers[destination.type] is truthy
HasHandler(destination) ==
  /\ "type" \in DOMAIN destination
  /\ destination.type \in HandlerTypes \cup InheritedKeys

\* the first position after `from` at which the for-of loop does not just
\* `continue`: a destination that has a handler and is enabled, or a null
\* element (reading its type throws); 0 if there is none
NextInvoked(flatDestinations, from) ==
  LET S == IF IsArray(flatDestinations)
           THEN {j \in (from + 1)..Len(flatDestinations.array) :
                   \/ IsNull(flatDestinations.array[j])
                   \/ /\ HasHandler(flatDestinations.array[j])
                      /\ flatDestinations.array[j].enabled = TRUE}
           ELSE {}
  IN  IF S = {} THEN 0 ELSE SetMin(S)

\* the loop goes on after position `from`: the next handler is called, or the
\* update of the submission is started; a value that is not iterable and a
\* null element throw a TypeError, which the outer catch answers
Continue(r, flatDestinations, from, steps, logged) ==
  LET j == NextInvoked(flatDestinations, from)
      throws == \/ ~IsArray(flatDestinations)
                \/ j # 0 /\ IsNull(flatDestinations.array[j])
  IN  /\ idx' = [idx EXCEPT ![r] = j]
      /\ IF throws
         THEN /\ OuterCatch(r)
              /\ trace' = [trace EXCEPT ![r] = @ \o steps \o <<"threw">>]
              /\ errorLog' = [errorLog EXCEPT ![r] = @ \o logged \o <<"Unexpected error">>]
         ELSE /\ pc' = [pc EXCEPT ![r] = IF j = 0 THEN "update" ELSE "handler"]
              /\ trace' = [trace EXCEPT ![r] =
                     @ \o steps \o (IF j = 0 THEN <<"update">> ELSE <<"handler">>)]
              /\ errorLog' = [errorLog EXCEPT ![r] = @ \o logged]
              /\ UNCHANGED response

\* (a variant that goes on to the destinations whatever the insert returned)
Insert_IgnoreError(r) ==
  /\ pc[r] = "insert"
  /\ \E outcome \in StoreOutcomes :
       IF outcome = "rejects"
       THEN /\ OuterCatch(r)
            /\ trace' = [trace EXCEPT ![r] = @ \o <<"insert", "threw">>]
            /\ ConsoleError(r, "Unexpected error")
            /\ UNCHANGED <<submissions, submission, idx>>
       ELSE IF outcome = "error"
       THEN /\ Continue(r, Flatten(connector[r].destinations), 0, <<"insert_failed">>,
                        <<"Error storing submission">>)
            /\ UNCHANGED <<submissions, submission>>
       ELSE /\ submissions' = Append(submissions,
                [connector_id |-> req[r].connectorId, form_data |-> req[r].body,
                 destinations_sent |-> << >>, request |-> r])
            /\ submission' = [submission EXCEPT ![r] = Len(submissions) + 1]
            /\ Continue(r, Flatten(connector[r].destinations), 0, <<"insert">>, << >>)
  /\ UNCHANGED <<limiterVars, ghostVars, otherVars, connectors, req, rateLimitResult,
                 connector, results, invocations>>

\* the insert settles: it rejects (outer catch), a storage error, or the row
\* is stored and the loop over the destinations runs up to its first handler
\* call
Insert(r) ==
  /\ pc[r] = "insert"
  /\ \E outcome \in StoreOutcomes :
       IF outcome = "rejects"
       THEN /\ OuterCatch(r)
            /\ trace' = [trace EXCEPT ![r] = @ \o <<"insert", "threw">>]
            /\ ConsoleError(r, "Unexpected error")
            /\ UNCHANGED <<submissions, submission, idx>>
       ELSE IF outcome = "error"
       THEN /\ Return(r, 500, "SUBMISSION_STORAGE_ERROR")
            /\ trace' = [trace EXCEPT ![r] = @ \o <<"insert_failed">>]
            /\ ConsoleError(r, "Error storing submission")
            /\ UNCHANGED <<submissions, submission, idx>>
       ELSE /\ submissions' = Append(submissions,
                [connector_id |-> req[r].connectorId, form_data |-> req[r].body,
                 destinations_sent |-> << >>, request |-> r])
            /\ submission' = [submission EXCEPT ![r] = Len(submissions) + 1]
            /\ Continue(r, Flatten(connector[r].destinations), 0, <<"insert">>, << >>)
  /\ UNCHANGED <<limiterVars, ghostVars, otherVars, connectors, req, rateLimitResult,
                 connector, results, invocations>>

\* what the handler of a destination can do: handleSms and handleWebhook
\* throw, Object(...) returns, the others return or throw
HandlerThrows(destination) ==
  IF destination.type \in Unimplemented THEN {TRUE}
  ELSE IF destination.type \in InheritedKeys THEN {FALSE}
  ELSE BOOLEAN

\* results[destination.type] = ... in the try and in the catch
Outcome(destination, threw, now) ==
  IF threw
  THEN [success |-> FALSE,
        error |-> IF destination.type \in Unimplemented
                  THEN "not yet implemented"
                  ELSE "Failed after attempt(s)",
        timestamp |-> now]
  ELSE [success |-> TRUE]

\* (a variant whose catch leaves the loop)
HandlerReturns_Break(r) ==
  /\ pc[r] = "handler"
  /\ LET flatDestinations == Flatten(connector[r].destinations)
         destination == flatDestinations.array[idx[r]]
     IN  \E threw \in HandlerThrows(destination) :
           /\ results' = [results EXCEPT ![r] =
                MapSet(@, destination.type, Outcome(destination, threw, clock))]
           /\ invocations' = [invocations EXCEPT ![r] =
                Append(@, [position |-> idx[r], type |-> destination.type,
                           success |-> ~threw])]
           /\ Continue(r, flatDestinations,
                       IF threw THEN Len(flatDestinations.array) ELSE idx[r], << >>,
                       IF threw THEN <<"Destination failed">> ELSE << >>)
  /\ UNCHANGED <<limiterVars, ghostVars, otherVars, connectors, submissions, req,
                 rateLimitResult, connector, submission>>

\* the handler called for the destination at idx returns or throws; its
\* outcome is recorded under the destination's type and the loop goes on
HandlerReturns(r) ==
  /\ pc[r] = "handler"
  /\ LET flatDestinations == Flatten(connector[r].destinations)
         destination == flatDestinations.array[idx[r]]
     IN  \E threw \in HandlerThrows(destination) :
           /\ results' = [results EXCEPT ![r] =
                MapSet(@, destination.type, Outcome(destination, threw, clock))]
           /\ invocations' = [invocations EXCEPT ![r] =
                Append(@, [position |-> idx[r], type |-> destination.type,
                           success |-> ~threw])]
           /\ Continue(r, flatDestinations, idx[r], << >>,
                       IF threw THEN <<"Destination failed">> ELSE << >>)
  /\ UNCHANGED <<limiterVars, ghostVars, otherVars, connectors, submissions, req,
                 rateLimitResult, connector, submission>>

\* (a variant whose update is not restricted to the request's own row)
Update_AllRows(r) ==
  /\ pc[r] = "update"
  /\ \E outcome \in StoreOutcomes :
       IF outcome = "rejects"
       THEN /\ OuterCatch(r)
            /\ trace' = [trace EXCEPT ![r] = Append(@, "threw")]
            /\ ConsoleError(r, "Unexpected error")
            /\ UNCHANGED submissions
       ELSE /\ submissions' = IF outcome = "error" THEN submissions
                              ELSE [i \in 1..Len(submissions) |->
                                      [submissions[i] EXCEPT !.destinations_sent = results[r]]]
            /\ trace' = [trace EXCEPT ![r] =
                           Append(@, IF outcome = "error" THEN "update_failed" ELSE "updated")]
            /\ response' = [response EXCEPT ![r] =
                 [status |-> 200, code |-> "success", success |-> TRUE,
                  submissionId |-> submission[r], results |-> results[r]]]
            /\ pc' = [pc EXCEPT ![r] = "done"]
            /\ UNCHANGED errorLog
  /\ UNCHANGED <<limiterVars, ghostVars, otherVars, connectors, req, rateLimitResult,
                 connector, submission, idx, results, invocations>>

\* the update of the submission settles: it rejects (outer catch), or it
\* resolves, its result is not looked at and the success response is returned
Update(r) ==
  /\ pc[r] = "update"
  /\ \E outcome \in StoreOutcomes :
       IF outcome = "rejects"
       THEN /\ OuterCatch(r)
            /\ trace' = [trace EXCEPT ![r] = Append(@, "threw")]
            /\ ConsoleError(r, "Unexpected error")
            /\ UNCHANGED submissions
       ELSE /\ submissions' = IF outcome = "error" THEN submissions
                              ELSE [submissions EXCEPT ![submission[r]].destinations_sent = results[r]]
            /\ trace' = [trace EXCEPT ![r] =
                           Append(@, IF outcome = "error" THEN "update_failed" ELSE "updated")]
            /\ response' = [response EXCEPT ![r] =
                 [status |-> 200, code |-> "success", success |-> TRUE,
                  submissionId |-> submission[r], results |-> results[r]]]
            /\ pc' = [pc EXCEPT ![r] = "done"]
            /\ UNCHANGED errorLog
  /\ UNCHANGED <<limiterVars, ghostVars, otherVars, connectors, req, rateLimitResult,
                 connector, submission, idx, results, invocations>>

Next ==
  \E r \in Requests :
    \/ Receive(r)
    \/ ParseAndGates(r)
    \/ Lookup(r)
    \/ Insert(r)
    \/ HandlerReturns(r)
    \/ Update(r)

OtherIdle ==
  /\ listing = None
  /\ hcall = None
  /\ vcall = None
  /\ notification = None

InitRL ==
  /\ InitLimiter /\ IngestIdle /\ OtherIdle
  /\ connectors = [i \in Identifiers |-> NoRow]

SpecRL == InitRL /\ [][NextRL]_vars

Init == InitLimiter /\ IngestIdle /\ OtherIdle /\ connectors \in ConnectorTables

Spec == Init /\ [][Next]_vars

(***************************************************************************)
(* The dashboard's side of the two tables:                                 *)
(* app/api/connectors/[id]: PUT and app/api/submissions: GET               *)
(***************************************************************************)
\* the fields a PUT body sets on a row: is_active, or destinations (the
\* row's list of configurations re-saved in the double-nested format)
PutBodies(row) ==
  IF row = NoRow THEN {}
  ELSE [is_active : {"true", "false"}]
         \cup { [destinations |-> JsonArray(<< y.destinations >>)] :
                  y \in {x \in {row} :
                           /\ IsArray(x.destinations)
                           /\ \A j \in 1..Len(x.destinations.array) :
                                /\ ~IsNull(x.destinations.array[j])
                                /\ ~IsArray(x.destinations.array[j])} }

\* PUT: the connector is found and its row updated with the fields of the body
PutConnector(id, body) ==
  /\ connectors[id] # NoRow
  /\ connectors' = [connectors EXCEPT ![id] =
       [is_active |-> IF "is_active" \in DOMAIN body THEN body.is_active ELSE @.is_active,
        destinations |-> IF "destinations" \in DOMAIN body THEN body.destinations
                         ELSE @.destinations]]
  /\ UNCHANGED <<limiterVars, ghostVars, otherVars, submissions, pc, req, rateLimitResult,
                 connector, submission, idx, results, response, trace, errorLog,
                 invocations>>

\* GET: the connector is found and the rows of its submissions are read, with
\* whatever outcome mapping each holds at that moment (inFlight: the requests
\* that were between their insert and the end of their update at the read)
GetSubmissions(connectorId) ==
  /\ connectors[connectorId] # NoRow
  /\ listing' = [connectorId |-> connectorId,
                 data |-> SelectSeq(submissions,
                            LAMBDA row : row.connector_id = connectorId),
                 inFlight |-> {r \in Requests : pc[r] \in {"handler", "update"}}]
  /\ UNCHANGED <<limiterVars, ghostVars, hcall, vcall, notification, connectors, submissions, pc, req,
                 rateLimitResult, connector, submission, idx, results, response, trace,
                 errorLog, invocations>>

\* the store as the dashboard and the endpoint share it, under the call
\* site's limit and window
InitStore == Init /\ maxRequests = MaxLimit /\ windowMs = MaxWindow

NextStore ==
  \/ Next
  \/ \E id \in Identifiers : \E body \in PutBodies(connectors[id]) : PutConnector(id, body)

SpecStore == InitStore /\ [][NextStore]_vars

NextList ==
  \/ Next
  \/ \E connectorId \in Identifiers : GetSubmissions(connectorId)

SpecList == InitStore /\ [][NextList]_vars

(***************************************************************************)
(* lib/destinations: handleEmail, handleSlack, handleSheets                *)
(***************************************************************************)
\* the handlers that retry
Retrying == {"email", "slack", "sheets"}
\* maxRetries = 3: POST calls handler(destination, formData, connector)
DefaultMaxRetries == 3

\* An error: its message, as the sequence of the phrases it is made of (what
\* error.message.includes(...) looks for), the Retry-After header of the
\* response it came from (0: none), and the class the specification puts the
\* failure in, which the handlers do not see.
Err(class, message, retryAfter) ==
  [class |-> class, message |-> message, retryAfter |-> retryAfter]

\* error.message.includes(phrase)
Includes(message, phrase) == phrase \in Range(message)

\* how a destination is set up: complete, without the credential the handler
\* reads from the environment, without its required config field, or with a
\* webhook URL that is not a Slack URL
Setups(handler) ==
  IF handler = "slack" THEN {"ok", "no_field", "bad_url"}
  ELSE {"ok", "no_credential", "no_field"}

\* what handleSlack and handleSheets throw before their loop
Preflight(handler, setup) ==
  IF handler = "slack" /\ setup = "no_field"
    THEN <<"Slack webhook URL is required in destination config">>
  ELSE IF handler = "slack" /\ setup = "bad_url"
    THEN <<"Invalid Slack webhook", "URL format. Please provide a valid Slack webhook URL.">>
  ELSE IF handler = "sheets" /\ setup = "no_field"
    THEN <<"Google Sheets", "spreadsheet ID", "is required in destination config">>
  ELSE << >>

\* the errors one attempt of sendEmailOnce can end with
EmailErrors(setup) ==
  IF setup = "no_credential"
    THEN {Err("config", <<"SendGrid API key not configured">>, 0)}
  ELSE IF setup = "no_field"
    THEN {Err("config", <<"Bad Request">>, 0)}
  ELSE {Err("config", <<"Forbidden">>, 0),
        Err("transient", <<"Service Unavailable">>, 0),
        Err("transient", <<"connect ETIMEDOUT">>, 0)}

\* the errors one attempt of handleSlack can end with: fetch rejects, or the
\* response is not ok (404, 403, 429 with its Retry-After, another status
\* with the text of its body)
SlackErrors ==
  {Err("config", <<"Slack webhook", "not found",
                   ". Please check that the webhook URL is correct and the webhook is still active.">>, 0),
   Err("config", <<"Slack webhook", "access denied",
                   ". The webhook may have been revoked or the app removed.">>, 0),
   Err("transient", <<"Slack", "rate limit", "exceeded. Retry after", "60", "seconds.">>, 0),
   Err("transient", <<"Slack", "rate limit", "exceeded. Retry after", "30", "seconds.">>, 30),
   Err("transient", <<"Slack API error:", "500", "Internal Server Error">>, 0),
   Err("transient", <<"Slack API error:", "502", "upstream", "not found">>, 0),
   Err("transient", <<"fetch failed">>, 0)}

\* the errors one attempt of handleSheets can end with: authenticateGoogleSheets
\* throws, spreadsheets.get fails (404 and 403 are reworded), or a later call
\* of the API fails
SheetsErrors(setup) ==
  IF setup = "no_credential"
    THEN {Err("config", <<"GOOGLE_SERVICE_ACCOUNT_JSON environment variable is not set">>, 0)}
  ELSE {Err("config", <<"Spreadsheet", "not found", ". Please check the", "spreadsheet ID">>, 0),
        Err("config", <<"Permission denied",
                        ". Please share the spreadsheet with the service account email">>, 0),
        Err("transient", <<"Internal error encountered">>, 0),
        Err("transient", <<"Quota exceeded">>, 0)}

AttemptErrors(handler, setup) ==
  IF handler = "email" THEN EmailErrors(setup)
  ELSE IF handler = "slack" THEN SlackErrors
  ELSE SheetsErrors(setup)

\* an attempt can succeed unless the setup makes every attempt fail
CanSucceed(handler, setup) == setup = "ok"

\* "Don't retry on certain errors": the catch rethrows
NoRetry(handler, message) ==
  IF handler = "slack"
    THEN \/ Includes(message, "not found")
         \/ Includes(message, "access denied")
         \/ Includes(message, "Invalid Slack webhook")
  ELSE IF handler = "sheets"
    THEN \/ Includes(message, "not found")
         \/ Includes(message, "Permission denied")
         \/ Includes(message, "spreadsheet ID")
  ELSE FALSE

\* delayMs
DelayMs(handler, attempt, message) ==
  IF handler = "slack" /\ Includes(message, "rate limit")
  THEN 60000
  ELSE 2^(attempt - 1) * 1000

\* the error thrown after the loop
FinalError(handler, attempts, lastError) ==
  << IF handler = "email" THEN "Failed to send email after"
     ELSE IF handler = "slack" THEN "Failed to send Slack message after"
     ELSE "Failed to append to Google Sheets after",
     ToString(attempts), "attempt(s). Last error:" >> \o lastError.message

\* the call of a retrying handler, as it stands when the first attempt is
\* started or the check of the config has thrown
Entered(handler, setup) ==
  [handler |-> handler, setup |-> setup, maxRetries |-> DefaultMaxRetries,
   pc |-> IF Preflight(handler, setup) = << >> THEN "attempting" ELSE "threw",
   attempt |-> IF Preflight(handler, setup) = << >> THEN 1 ELSE 0,
   errors |-> << >>, waits |-> << >>,
   thrown |-> Preflight(handler, setup)]

\* a handler is called; handleSlack and handleSheets check their config
\* before the loop, and the first attempt is started
Invoke(handler, setup) ==
  /\ IF hcall = None THEN TRUE ELSE hcall.pc \in {"returned", "threw"}
  /\ hcall' = Entered(handler, setup)
  /\ UNCHANGED <<limiterVars, ghostVars, listing, vcall, notification, connectors, submissions, pc, req,
                 rateLimitResult, connector, submission, idx, results, response, trace,
                 errorLog, invocations>>

\* the attempt under way succeeds, and the handler returns
AttemptSucceeds ==
  /\ hcall # None
  /\ hcall.pc = "attempting"
  /\ CanSucceed(hcall.handler, hcall.setup)
  /\ hcall' = [hcall EXCEPT !.pc = "returned"]
  /\ UNCHANGED <<limiterVars, ghostVars, listing, vcall, notification, connectors, submissions, pc, req,
                 rateLimitResult, connector, submission, idx, results, response, trace,
                 errorLog, invocations>>

\* (a variant whose catch waits after the last attempt too, and whose loop
\* makes one attempt more)
AttemptFails_OneMore ==
  /\ hcall # None
  /\ hcall.pc = "attempting"
  /\ \E error \in AttemptErrors(hcall.handler, hcall.setup) :
       hcall' =
         IF NoRetry(hcall.handler, error.message)
         THEN [hcall EXCEPT !.errors = Append(@, error), !.pc = "threw",
                            !.thrown = error.message]
         ELSE IF hcall.attempt <= hcall.maxRetries
         THEN [hcall EXCEPT !.errors = Append(@, error), !.pc = "waiting",
                            !.waits = Append(@, DelayMs(hcall.handler, hcall.attempt,
                                                        error.message))]
         ELSE [hcall EXCEPT !.errors = Append(@, error), !.pc = "threw",
                            !.thrown = FinalError(hcall.handler, hcall.attempt, error)]
  /\ UNCHANGED <<limiterVars, ghostVars, listing, vcall, notification, connectors, submissions, pc, req,
                 rateLimitResult, connector, submission, idx, results, response, trace,
                 errorLog, invocations>>

\* the attempt under way fails: the catch rethrows, or starts the wait before
\* the next attempt, or (last attempt) the loop ends and the final error is
\* thrown
AttemptFails ==
  /\ hcall # None
  /\ hcall.pc = "attempting"
  /\ \E error \in AttemptErrors(hcall.handler, hcall.setup) :
       hcall' =
         IF NoRetry(hcall.handler, error.message)
         THEN [hcall EXCEPT !.errors = Append(@, error), !.pc = "threw",
                            !.thrown = error.message]
         ELSE IF hcall.attempt < hcall.maxRetries
         THEN [hcall EXCEPT !.errors = Append(@, error), !.pc = "waiting",
                            !.waits = Append(@, DelayMs(hcall.handler, hcall.attempt,
                                                        error.message))]
         ELSE [hcall EXCEPT !.errors = Append(@, error), !.pc = "threw",
                            !.thrown = FinalError(hcall.handler, hcall.attempt, error)]
  /\ UNCHANGED <<limiterVars, ghostVars, listing, vcall, notification, connectors, submissions, pc, req,
                 rateLimitResult, connector, submission, idx, results, response, trace,
                 errorLog, invocations>>

\* await delay(delayMs) resolves and the next attempt is started
DelayEnds ==
  /\ hcall # None
  /\ hcall.pc = "waiting"
  /\ hcall' = [hcall EXCEPT !.pc = "attempting", !.attempt = @ + 1]
  /\ UNCHANGED <<limiterVars, ghostVars, listing, vcall, notification, connectors, submissions, pc, req,
                 rateLimitResult, connector, submission, idx, results, response, trace,
                 errorLog, invocations>>

NextH ==
  \/ \E handler \in Retrying : \E setup \in Setups(handler) : Invoke(handler, setup)
  \/ AttemptSucceeds
  \/ AttemptFails
  \/ DelayEnds

\* no handler call under way, under the call site's limit and window
InitH == InitRL /\ maxRequests = MaxLimit /\ windowMs = MaxWindow

SpecH == InitH /\ [][NextH]_vars

\* an attempt under way comes to its end (the send settles), and the timer of
\* a wait fires
FairH ==
  /\ WF_vars(AttemptSucceeds \/ AttemptFails)
  /\ WF_vars(DelayEnds)

SpecHFair == InitH /\ [][NextH]_vars /\ FairH

(***************************************************************************)
(* POST with the handlers it calls: the dispatch loop of                   *)
(* app/api/submit/[connectorId] running handleEmail, handleSlack,          *)
(* handleSheets, handleSms and handleWebhook                               *)
(***************************************************************************)
\* the connectors of this part: one enabled destination of each registered
\* type, and a list of two
SendLists ==
  { << [type |-> type, enabled |-> TRUE] >> : type \in HandlerTypes }
    \cup { << [type |-> "webhook", enabled |-> TRUE], [type |-> "slack", enabled |-> TRUE] >> }

SendTables ==
  { [i \in Identifiers |->
       IF i = Probe THEN [is_active |-> "true", destinations |-> JsonArray(list)]
       ELSE NoRow] : list \in SendLists }

\* the call of handleSms or handleWebhook: it throws, there is no loop
Placeholder(type) ==
  [handler |-> type, setup |-> "ok", maxRetries |-> 0, pc |-> "threw", attempt |-> 0,
   errors |-> << >>, waits |-> << >>,
   thrown |-> <<"This destination type is", "not yet implemented">>]

\* the call of a name destinationHandlers inherits: Object(...) returns
Inherited(type) ==
  [handler |-> type, setup |-> "ok", maxRetries |-> 0, pc |-> "returned", attempt |-> 0,
   errors |-> << >>, waits |-> << >>, thrown |-> << >>]

\* the setups a destination of a type can be in
SetupsOf(type) == IF type \in Retrying THEN Setups(type) ELSE {"ok"}

\* handler(destination, formData, connector), up to its first await
HandlerCall(type, setup) ==
  IF type \in Retrying THEN Entered(type, setup)
  ELSE IF type \in Unimplemented THEN Placeholder(type)
  ELSE Inherited(type)

\* (a variant that records what the handler returned)
Recorded_ReturnValue(call, now) ==
  IF call.pc = "threw"
  THEN [success |-> FALSE, error |-> call.thrown, timestamp |-> now]
  ELSE [success |-> TRUE, attempts |-> call.attempt]

\* (a variant that reports an unimplemented destination as sent)
Recorded_Silent(call, now) ==
  IF call.pc = "threw" /\ call.handler \notin Unimplemented
  THEN [success |-> FALSE, error |-> call.thrown, timestamp |-> now]
  ELSE [success |-> TRUE]

\* results[destination.type] = ... in the try (the handler returned) and in
\* the catch (it threw)
Recorded(call, now) ==
  IF call.pc = "threw"
  THEN [success |-> FALSE, error |-> call.thrown, timestamp |-> now]
  ELSE [success |-> TRUE]

\* the loop calls the handler of the destination at idx
HandlerCalled(r) ==
  /\ pc[r] = "handler"
  /\ hcall = None
  /\ LET destination == Flatten(connector[r].destinations).array[idx[r]]
     IN  \E setup \in SetupsOf(destination.type) :
           hcall' = HandlerCall(destination.type, setup)
  /\ pc' = [pc EXCEPT ![r] = "sending"]
  /\ UNCHANGED <<limiterVars, ghostVars, listing, vcall, notification, connectors, submissions, req,
                 rateLimitResult, connector, submission, idx, results, response, trace,
                 errorLog, invocations>>

\* the handler has returned or thrown: its outcome is recorded under the
\* destination's type and the loop goes on
HandlerEnds(r) ==
  /\ pc[r] = "sending"
  /\ hcall # None
  /\ hcall.pc \in {"returned", "threw"}
  /\ LET flatDestinations == Flatten(connector[r].destinations)
         destination == flatDestinations.array[idx[r]]
     IN  /\ results' = [results EXCEPT ![r] =
              MapSet(@, destination.type, Recorded(hcall, clock))]
         /\ invocations' = [invocations EXCEPT ![r] =
              Append(@, [position |-> idx[r], type |-> destination.type,
                         success |-> hcall.pc = "returned", call |-> hcall])]
         /\ Continue(r, flatDestinations, idx[r], << >>,
                     IF hcall.pc = "threw" THEN <<"Destination failed">> ELSE << >>)
  /\ hcall' = None
  /\ UNCHANGED <<limiterVars, ghostVars, listing, vcall, notification, connectors, submissions, req,
                 rateLimitResult, connector, submission>>

\* the request that is followed through its handler calls
Sender == SetMin(Requests)

NextSend ==
  \/ \E r \in {Sender} :
       \/ Receive(r)
       \/ ParseAndGates(r)
       \/ Lookup(r)
       \/ Insert(r)
       \/ HandlerCalled(r)
       \/ HandlerEnds(r)
       \/ Update(r)
  \/ AttemptSucceeds
  \/ AttemptFails
  \/ DelayEnds

InitSend ==
  /\ InitLimiter /\ IngestIdle /\ OtherIdle
  /\ maxRequests = MaxLimit /\ windowMs = MaxWindow
  /\ connectors \in SendTables

SpecSend == InitSend /\ [][NextSend]_vars

(***************************************************************************)
(* lib/validation: validateSubmission                                      *)
(***************************************************************************)
\* maxPayloadSize, maxFields, the limit on fieldName.length, maxStringLength
MaxPayloadSize == 100 * 1024
MaxFieldCount == 50
MaxFieldNameLength == 255
MaxStringLength == 10000

\* A field value, as JSON.parse delivers it: a string, given by its length in
\* UTF-16 code units (what .length counts) and the bytes each unit takes in
\* UTF-8 (1 for ASCII, 3 for the rest of the basic plane); a number, given by
\* where it lies (1e999 parses to Infinity); a boolean; null; a nested object
\* or an array.
StringValue(length, unitBytes) ==
  [kind |-> "string", length |-> length, unitBytes |-> unitBytes]
Scalar(kind) == [kind |-> kind, length |-> 0, unitBytes |-> 1]

FieldValues ==
  { StringValue(2000, 1), StringValue(2000, 3), StringValue(MaxStringLength, 1),
    StringValue(MaxStringLength + 1, 1), StringValue(MaxPayloadSize, 1) }
    \cup { Scalar(kind) : kind \in {"safe", "unsafe", "infinite", "boolean", "null",
                                    "object", "array"} }

\* the lengths of field names
FieldNameLengths == {0, 1, MaxFieldNameLength + 1}

\* A run of `count` fields of one shape, in the order of Object.entries: their
\* names differ and have the same length, their values are alike. There is
\* one empty name.
FieldRuns ==
  { run \in [count : {1, MaxFieldCount}, name : FieldNameLengths, value : FieldValues] :
      run.name = 0 => run.count = 1 }

\* the sequences of at most n field runs
RECURSIVE RunSeqs(_)
RunSeqs(n) ==
  IF n = 0 THEN { << >> }
  ELSE RunSeqs(n - 1) \cup
       { Append(runs, run) : runs \in {q \in RunSeqs(n - 1) : Len(q) = n - 1}, run \in FieldRuns }

\* a payload: what request.json() returned
ObjectPayload(runs) == [shape |-> "object", fields |-> runs]
OtherPayload(shape) == [shape |-> shape, fields |-> << >>]
Payloads(maxRuns) ==
  { ObjectPayload(runs) : runs \in RunSeqs(maxRuns) }
    \cup { OtherPayload(shape) : shape \in {"null", "array", "string", "number", "boolean"} }

\* the number of fields of the runs before run n, and of all runs
RECURSIVE FieldsBefore(_, _)
FieldsBefore(runs, n) ==
  IF n <= 1 THEN 0 ELSE FieldsBefore(runs, n - 1) + runs[n - 1].count
\* Object.keys(formData).length
FieldCount(runs) == FieldsBefore(runs, Len(runs) + 1)

\* JSON.stringify(value).length of a field value (Infinity is written null,
\* the nested values are taken empty), in code units, and its size in bytes
ValueLength(value) ==
  IF value.kind = "string" THEN value.length + 2
  ELSE IF value.kind = "safe" THEN 1
  ELSE IF value.kind = "unsafe" THEN 16
  ELSE IF value.kind \in {"object", "array"} THEN 2
  ELSE 4
ValueBytes(value) ==
  IF value.kind = "string" THEN value.length * value.unitBytes + 2
  ELSE ValueLength(value)

\* the code units, or the bytes, of the entries of runs 1..n, without the
\* commas between them
RECURSIVE EntriesSize(_, _, _)
EntriesSize(runs, n, bytes) ==
  IF n = 0 THEN 0
  ELSE EntriesSize(runs, n - 1, bytes)
         + runs[n].count * (runs[n].name + 3 + IF bytes THEN ValueBytes(runs[n].value)
                                                ELSE ValueLength(runs[n].value))

\* JSON.stringify(formData).length: braces, entries "name":value, commas
SerializedLength(runs) ==
  2 + EntriesSize(runs, Len(runs), FALSE) + Max(FieldCount(runs) - 1, 0)
\* the size of that serialization in bytes (UTF-8)
SerializedBytes(runs) ==
  2 + EntriesSize(runs, Len(runs), TRUE) + Max(FieldCount(runs) - 1, 0)

\* what validateSubmission does: it returns true (rule 0), or throws an error
\* whose message gives the rule that failed and, where it names one, the
\* field at fault (its position in Object.entries; 0: none named)
Verdict(rule, field) == [rule |-> rule, field |-> field]
Passes == Verdict(0, 0)

\* (a variant whose type check lets arrays through)
FieldVerdict_ArraysPass(run, position) ==
  IF run.name = 0 THEN Verdict(4, 0)
  ELSE IF run.name > MaxFieldNameLength THEN Verdict(4, position)
  ELSE IF run.value.kind = "null" THEN Passes
  ELSE IF run.value.kind = "object" THEN Verdict(5, position)
  ELSE IF run.value.kind = "string" /\ run.value.length > MaxStringLength
    THEN Verdict(6, position)
  ELSE IF run.value.kind \in {"infinite", "unsafe"} THEN Verdict(7, position)
  ELSE Passes

\* the body of the loop over Object.entries(formData), for the first field of
\* a run, which is at `position`
FieldVerdict(run, position) ==
  IF run.name = 0 THEN Verdict(4, 0)
  ELSE IF run.name > MaxFieldNameLength THEN Verdict(4, position)
  ELSE IF run.value.kind = "null" THEN Passes
  ELSE IF run.value.kind \in {"object", "array"} THEN Verdict(5, position)
  ELSE IF run.value.kind = "string" /\ run.value.length > MaxStringLength
    THEN Verdict(6, position)
  ELSE IF run.value.kind \in {"infinite", "unsafe"} THEN Verdict(7, position)
  ELSE Passes

\* the loop, from run n on
RECURSIVE FieldsVerdict(_, _)
FieldsVerdict(runs, n) ==
  IF n > Len(runs) THEN Passes
  ELSE IF FieldVerdict(runs[n], FieldsBefore(runs, n) + 1) # Passes
    THEN FieldVerdict(runs[n], FieldsBefore(runs, n) + 1)
  ELSE FieldsVerdict(runs, n + 1)

\* (a variant that counts the fields before it measures the payload)
validateSubmission_CountFirst(formData) ==
  IF formData.shape # "object" THEN Verdict(1, 0)
  ELSE IF FieldCount(formData.fields) > MaxFieldCount THEN Verdict(3, 0)
  ELSE IF SerializedLength(formData.fields) > MaxPayloadSize THEN Verdict(2, 0)
  ELSE FieldsVerdict(formData.fields, 1)

validateSubmission(formData) ==
  IF formData.shape # "object" THEN Verdict(1, 0)
  ELSE IF SerializedLength(formData.fields) > MaxPayloadSize THEN Verdict(2, 0)
  ELSE IF FieldCount(formData.fields) > MaxFieldCount THEN Verdict(3, 0)
  ELSE FieldsVerdict(formData.fields, 1)

\* validateSubmission is called with a payload
CallValidate ==
  /\ vcall = None
  /\ \E formData \in Payloads(MaxRuns) :
       vcall' = [formData |-> formData, verdict |-> None, calls |-> 0]
  /\ UNCHANGED <<limiterVars, ghostVars, listing, hcall, notification, connectors, submissions, pc, req,
                 rateLimitResult, connector, submission, idx, results, response, trace,
                 errorLog, invocations>>

\* (a variant that tidies the object it was given: the fields of the first run
\* are deleted from the caller's object when that run is the one rejected)
AfterCall_Tidied(formData, verdict) ==
  IF "fields" \in DOMAIN formData /\ verdict.rule >= 4 /\ Len(formData.fields) >= 1
     /\ verdict.field <= formData.fields[1].count
  THEN [formData EXCEPT !.fields = Tail(formData.fields)]
  ELSE formData

\* what a call leaves in the caller's object: the function only reads formData
\* (typeof, Array.isArray, JSON.stringify, Object.keys, Object.entries)
AfterCall(formData, verdict) == formData

\* it returns or throws
Validate ==
  /\ vcall # None
  /\ vcall.verdict = None
  /\ \E verdict \in {validateSubmission(vcall.formData)} :
       vcall' = [formData |-> AfterCall(vcall.formData, verdict),
                 verdict |-> verdict, calls |-> 1]
  /\ UNCHANGED <<limiterVars, ghostVars, listing, hcall, notification, connectors, submissions, pc, req,
                 rateLimitResult, connector, submission, idx, results, response, trace,
                 errorLog, invocations>>

\* the same object is passed to validateSubmission a second time
Revalidate ==
  /\ vcall # None
  /\ vcall.calls = 1
  /\ \E verdict \in {validateSubmission(vcall.formData)} :
       vcall' = [formData |-> AfterCall(vcall.formData, verdict),
                 verdict |-> verdict, calls |-> 2]
  /\ UNCHANGED <<limiterVars, ghostVars, listing, hcall, notification, connectors, submissions, pc, req,
                 rateLimitResult, connector, submission, idx, results, response, trace,
                 errorLog, invocations>>

NextV ==
  \/ CallValidate
  \/ Validate
  \/ Revalidate

InitV == InitRL /\ maxRequests = MaxLimit /\ windowMs = MaxWindow

SpecV == InitV /\ [][NextV]_vars

(***************************************************************************)
(* The notifications the handlers render (part_010 sendEmailOnce and       *)
(* escapeHtml, destinations/slack.js)                                      *)
(*                                                                         *)
(* A string is the sequence of its characters. What a handler renders is   *)
(* a sequence of segments, each with the format of the field it is part    *)
(* of (html, mrkdwn, plain_text), where its text comes from (the template  *)
(* literal, the payload, the connector) and the text.                      *)
(***************************************************************************)
\* the characters of the payload's and the connector's strings: a letter and
\* the five characters escapeHtml replaces
Chars == {"a", "&", "<", ">", "\"", "'"}
Texts(maxLen) == UNION { [1..n -> Chars] : n \in 0..maxLen }

\* a JSON string value
TextValue(chars) == [string |-> chars]

\* map[m] of escapeHtml
HtmlEntity(char) ==
  CASE char = "&"  -> <<"&", "a", "m", "p", ";">>
    [] char = "<"  -> <<"&", "l", "t", ";">>
    [] char = ">"  -> <<"&", "g", "t", ";">>
    [] char = "\"" -> <<"&", "q", "u", "o", "t", ";">>
    [] char = "'"  -> <<"&", "#", "0", "3", "9", ";">>
    [] OTHER       -> <<char>>

\* String(text).replace(/[&<>"']/g, m => map[m])
RECURSIVE ReplaceAll(_)
ReplaceAll(chars) ==
  IF chars = << >> THEN << >>
  ELSE HtmlEntity(Head(chars)) \o ReplaceAll(Tail(chars))

\* escapeHtml(text): '' for null, the replaced string otherwise
escapeHtml(text) ==
  IF IsNull(text) THEN << >> ELSE ReplaceAll(text.string)

\* c.toUpperCase()
ToUpperCase(char) == IF char = "a" THEN "A" ELSE char

\* key.charAt(0).toUpperCase() + key.slice(1)
Capitalized(key) ==
  IF key = << >> THEN << >> ELSE <<ToUpperCase(Head(key))>> \o Tail(key)

\* value || '(empty)' then String(...): null and '' are falsy
OrEmpty(value) ==
  IF IsNull(value) THEN << >> ELSE value.string

Segment(format, from, text) == [format |-> format, from |-> from, text |-> text]
\* a piece of a template literal, kept as one token
Literal(format, token) == Segment(format, "template", <<token>>)
\* `${x || '(empty)'}`
ValueOrEmpty(format, chars) ==
  IF chars = << >> THEN Literal(format, "(empty)") ELSE Segment(format, "payload", chars)

\* the payloads rendered: one or two fields; names are not empty (validation)
FieldNames == Texts(1) \ {<< >>}
FieldTexts(maxLen) == {JsonNull} \cup {TextValue(chars) : chars \in Texts(maxLen)}
RenderedPayloads(maxLen) ==
  { << [key |-> key, value |-> value] >> : key \in FieldNames, value \in FieldTexts(maxLen) }
    \cup { << [key |-> <<"a">>, value |-> TextValue(<<"a">>)], [key |-> key, value |-> JsonNull] >> :
             key \in FieldNames }
ConnectorNames == Texts(1)

\* sendEmailOnce: msg.html, field by field
RECURSIVE EmailFields(_)
EmailFields(entries) ==
  IF entries = << >> THEN << >>
  ELSE << Literal("html", "<div><strong>"),
          Segment("html", "payload", escapeHtml(TextValue(Capitalized(Head(entries).key)))),
          Literal("html", ":</strong><span>"),
          ValueOrEmpty("html", escapeHtml(Head(entries).value)),
          Literal("html", "</span></div>") >> \o EmailFields(Tail(entries))

\* sendEmailOnce: msg.html, and msg.text, which is not escaped
EmailMessage(formData, name) ==
  << Literal("html", "<div>...<p>You received a new submission from: <strong>"),
     Segment("html", "connector", escapeHtml(TextValue(name))),
     Literal("html", "</strong></p><div>") >>
  \o EmailFields(formData)
  \o << Literal("html", "</div>...</div>"),
        Literal("text", "New Form Submission from "),
        Segment("text", "connector", name) >>
  \o [i \in 1..Len(formData) |-> ValueOrEmpty("text", OrEmpty(formData[i].value))]

\* handleSlack: the mrkdwn text of one field of a section
SlackField(entry) ==
  << Literal("mrkdwn", "*"),
     Segment("mrkdwn", "payload", Capitalized(entry.key)),
     Literal("mrkdwn", ":*\n"),
     ValueOrEmpty("mrkdwn", OrEmpty(entry.value)) >>

\* handleSlack: the sections, two fields each, the second one ' ' if absent
RECURSIVE SlackSections(_)
SlackSections(entries) ==
  IF entries = << >> THEN << >>
  ELSE IF Len(entries) = 1
  THEN SlackField(entries[1]) \o << Literal("mrkdwn", " ") >>
  ELSE SlackField(entries[1]) \o SlackField(entries[2])
         \o SlackSections(SubSeq(entries, 3, Len(entries)))

\* handleSlack: the header, the sections, the context block and the fallback text
SlackMessage(formData, name) ==
  << Literal("plain_text", "New Form Submission: "),
     Segment("plain_text", "connector", name) >>
  \o SlackSections(formData)
  \o << Literal("mrkdwn", "*Connector:* "),
        Segment("mrkdwn", "connector", name),
        Literal("mrkdwn", " | *Time:* <!date^...>"),
        Literal("text", "New form submission from "),
        Segment("text", "connector", name) >>

Rendering == {"email", "slack"}

\* a handler that renders a notification is called for a payload
Compose ==
  /\ notification = None
  /\ \E handler \in Rendering, formData \in RenderedPayloads(MaxText), name \in ConnectorNames :
       notification' = [handler |-> handler, formData |-> formData, name |-> name, out |-> None]
  /\ UNCHANGED <<limiterVars, ghostVars, listing, hcall, vcall, connectors, submissions, pc, req,
                 rateLimitResult, connector, submission, idx, results, response, trace,
                 errorLog, invocations>>

\* it builds what it sends
Render ==
  /\ notification # None
  /\ notification.out = None
  /\ notification' = [notification EXCEPT !.out =
       [segments |-> IF notification.handler = "email"
                     THEN EmailMessage(notification.formData, notification.name)
                     ELSE SlackMessage(notification.formData, notification.name)]]
  /\ UNCHANGED <<limiterVars, ghostVars, listing, hcall, vcall, connectors, submissions, pc, req,
                 rateLimitResult, connector, submission, idx, results, response, trace,
                 errorLog, invocations>>

NextM ==
  \/ Compose
  \/ Render

InitM == InitRL /\ maxRequests = MaxLimit /\ windowMs = MaxWindow

SpecM == InitM /\ [][NextM]_vars

(***************************************************************************)
(* Properties of the rate limiter (checked under SpecRL)                   *)
(***************************************************************************)
\* the number of timestamps of `timestamps` that lie inside the window at `now`
InWindowCount(timestamps, now) ==
  Cardinality({i \in 1..Len(timestamps) : timestamps[i] > now - windowMs})
\* the last call was rateLimit for Probe, made after maxRequests >= 1 admitted
\* calls that all lie inside one window, none admitted since
C1_WindowFull ==
  /\ rl.op = "rateLimit" /\ rl.identifier = Probe
  /\ maxRequests >= 1
  /\ Len(rl.histBefore) = maxRequests
  /\ rl.histBefore[Len(rl.histBefore)] < rl.histBefore[1] + windowMs

\* C1: once N >= 1 calls of rateLimit(id, N, W) have been admitted inside one
\* window, the next calls for id are rejected as long as W has not elapsed
\* since the first of these N calls, and the call made once W has elapsed
\* since that first call is admitted.
C1_WindowAdmission ==
  C1_WindowFull => (rl.allowed <=> rl.now >= rl.histBefore[1] + windowMs)

C1_Witness ==
  /\ C1_WindowFull
  /\ maxRequests >= 2
  /\ rl.now >= rl.histBefore[1] + windowMs
  /\ rl.now < rl.histBefore[2] + windowMs
  /\ rl.allowed

\* C3 (as claimed): an admitted call returns remaining = maxRequests - count - 1,
\* count being the in-window timestamps stored before the call; a rejected
\* call returns remaining = 0.
C3_RemainingAfterAdmission ==
  rl.op = "rateLimit" =>
    rl.remaining = IF rl.allowed
                   THEN maxRequests - InWindowCount(rl.pre, rl.now) - 1
                   ELSE 0

\* C4: while no stored timestamp of the identifier expires, each admitted
\* call reports a remaining value one less than the previous admitted call,
\* and no call, admitted or rejected, reports a negative remaining.
C4_RemainingMonotonic ==
  rl.op # "none" =>
    /\ rl.remaining >= 0
    /\ ( /\ rl.op = "rateLimit" /\ rl.allowed
         /\ rl.prev # None
         /\ rl.prev.oldest > rl.now - windowMs )
       => rl.remaining = rl.prev.rem - 1

C4_Witness ==
  /\ rl.op = "rateLimit" /\ rl.allowed
  /\ rl.prev # None
  /\ rl.prev.oldest > rl.now - windowMs
  /\ rl.remaining = rl.prev.rem - 1
  /\ rl.remaining >= 1

\* the timestamps that survive the pruning of the last call, with the one
\* rateLimit has just appended
C5_Survivors ==
  {rl.pre[i] : i \in {k \in 1..Len(rl.pre) : rl.pre[k] > rl.now - windowMs}}
    \cup (IF rl.op = "rateLimit" /\ rl.allowed THEN {rl.now} ELSE {})

\* C5: resetTime is the oldest timestamp that survives pruning (the appended
\* one included) plus windowMs, and now + windowMs when none survives.
C5_ResetTime ==
  rl.op = "rateLimit" =>
    rl.resetTime = (IF C5_Survivors = {} THEN rl.now ELSE SetMin(C5_Survivors)) + windowMs

C5_Witness ==
  /\ rl.op = "rateLimit"
  /\ Cardinality(C5_Survivors) >= 2
  /\ SetMin(C5_Survivors) < rl.now
  /\ \E i \in 1..Len(rl.pre) : rl.pre[i] <= rl.now - windowMs

\* C6: a read at time now counts only the timestamps newer than now - W, a
\* request is admitted only if that count is below maxRequests, and after
\* rateLimit returns the stored sequence holds no timestamp older than now - W.
C6_WindowInvariant ==
  rl.op # "none" =>
    /\ rl.requestCount = InWindowCount(rl.pre, rl.now)
    /\ rl.allowed => rl.requestCount < maxRequests
    /\ (rl.op = "rateLimit" /\ rl.identifier \in DOMAIN requestMap)
         => \A t \in Range(requestMap[rl.identifier]) : t > rl.now - windowMs

C6_Witness ==
  /\ rl.op = "rateLimit"
  /\ rl.identifier \in DOMAIN requestMap
  /\ rl.requestCount >= 1
  /\ rl.requestCount < Len(rl.pre)
  /\ Len(requestMap[rl.identifier]) = rl.requestCount + 1

\* C7: a rateLimit call sweeps exactly when more than CLEANUP_THRESHOLD
\* identifiers are tracked at its end; the sweep deletes every identifier left
\* without an in-window timestamp and no other; at or below the threshold no
\* identifier is removed.
C7_Live(i) ==
  \/ \E t \in Range(MapGet(requestMap, i)) : t > rl'.cleanupNow - windowMs
  \/ i = rl'.identifier /\ rl'.allowed /\ rl'.now > rl'.cleanupNow - windowMs
C7_Tracked == (DOMAIN requestMap) \cup {rl'.identifier}
C7_SweepRule ==
  [][ rl'.op = "rateLimit" =>
        /\ rl'.swept <=> Cardinality(C7_Tracked) > CLEANUP_THRESHOLD
        /\ DOMAIN requestMap' =
             IF Cardinality(C7_Tracked) > CLEANUP_THRESHOLD
             THEN {i \in C7_Tracked : C7_Live(i)}
             ELSE C7_Tracked ]_vars

C7_Witness ==
  /\ rl.op = "rateLimit" /\ rl.swept
  /\ Cardinality(DOMAIN requestMap) < rl.sizeAtEnd
  /\ DOMAIN requestMap # {}

(***************************************************************************)
(* Properties of the ingestion endpoint (checked under Spec)               *)
(***************************************************************************)
Status(r) == IF response[r] = None THEN 0 ELSE response[r].status
\* the requests the limiter admitted for identifier id
Admitted(id) ==
  {r \in Requests : /\ rateLimitResult[r] # None
                    /\ rateLimitResult[r].allowed
                    /\ req[r].connectorId = id}

\* C2: under every interleaving of concurrent ingestion requests, the limiter
\* admits at most maxRequests requests of one connector inside any window: two
\* requests never both take the last slot.
C2_AtMostKAdmitted ==
  \A id \in Identifiers, t \in Time :
    Cardinality({r \in Admitted(id) : /\ rateLimitResult[r].at > t - windowMs
                                      /\ rateLimitResult[r].at <= t}) <= maxRequests

C2_Witness ==
  /\ maxRequests = 1
  /\ pc[1] = "lookup" /\ rateLimitResult[1].allowed
  /\ pc[2] = "done" /\ Status(2) = 429
  /\ req[1].connectorId = req[2].connectorId
  /\ rateLimitResult[2].at < rateLimitResult[1].at + windowMs

GateOrder == <<"rateLimit", "validate", "lookup", "active">>

\* C8: the gates of a request run in the order rate limit, validation,
\* connector lookup, active flag, before anything else (a gate that runs is
\* preceded by exactly the gates before it in this order), and a request
\* rejected by the limiter or by validation never reads the connector store.
C8_GateOrder ==
  \A r \in Requests :
    /\ \A i \in 1..Len(trace[r]) :
         trace[r][i] \in Range(GateOrder) =>
           /\ i <= Len(GateOrder)
           /\ \A j \in 1..i : trace[r][j] = GateOrder[j]
    /\ Status(r) \in {429, 400} => "lookup" \notin Range(trace[r])

C8_Witness ==
  /\ Status(1) = 400 /\ trace[1] = <<"rateLimit", "validate">>
  /\ Status(2) = 403 /\ trace[2] = GateOrder

Inserted(r) == \E i \in 1..Len(submissions) : submissions[i].request = r
Invoked(r) == "handler" \in Range(trace[r])
PassedAllGates(r) ==
  /\ rateLimitResult[r] # None /\ rateLimitResult[r].allowed
  /\ req[r].body = "ok"
  /\ connector[r] # None
  /\ connector[r].is_active = "true"

\* C9: a submission row is inserted, and a destination handler invoked, only
\* for a request that passed all four gates: a request answered 429, 400, 404
\* or 403 inserts nothing and invokes no handler.
C9_InsertOnlyAfterGates ==
  \A r \in Requests :
    /\ (Inserted(r) \/ Invoked(r) \/ pc[r] = "insert") => PassedAllGates(r)
    /\ Status(r) \in {429, 400, 404, 403} => ~Inserted(r) /\ ~Invoked(r)

C9_Witness ==
  /\ Status(1) = 403 /\ ~Inserted(1) /\ ~Invoked(1)
  /\ NextInvoked(Flatten(connector[1].destinations), 0) # 0
  /\ Status(2) = 404 /\ ~Inserted(2)
  /\ submissions = << >>

\* C10: a failed insert ends the request with 500 SUBMISSION_STORAGE_ERROR;
\* no handler is invoked and no update of the submission is attempted.
C10_InsertFailureIsFatal ==
  \A r \in Requests :
    "insert_failed" \in Range(trace[r]) =>
      /\ pc[r] = "done"
      /\ response[r] = [status |-> 500, code |-> "SUBMISSION_STORAGE_ERROR"]
      /\ ~Inserted(r)
      /\ "handler" \notin Range(trace[r])
      /\ "update" \notin Range(trace[r])

C10_Witness ==
  \E r \in Requests :
    /\ "insert_failed" \in Range(trace[r])
    /\ Status(r) = 500
    /\ NextInvoked(Flatten(connector[r].destinations), 0) # 0

(***************************************************************************)
(* Properties of dispatch and of the two writes of a submission            *)
(***************************************************************************)
\* the loop over the destinations has run to its end
DispatchDone(r) == "update" \in Range(trace[r])

\* the positions of the list request r processes that hold an enabled
\* configuration of a registered type
Registered(r) ==
  LET flat == Flatten(connector[r].destinations)
  IN  IF IsArray(flat)
      THEN {j \in 1..Len(flat.array) :
              /\ "type" \in DOMAIN flat.array[j]
              /\ flat.array[j].type \in HandlerTypes
              /\ flat.array[j].enabled = TRUE}
      ELSE {}

\* C11: a request whose insert succeeded answers 200 with success: true, the
\* submission id and the results mapping, whatever the destination list holds
\* and however many handlers fail.
C11_InsertedAnswers200 ==
  \A r \in Requests :
    Inserted(r) /\ pc[r] = "done" =>
      /\ response[r].status = 200
      /\ response[r].success = TRUE
      /\ response[r].submissionId = submission[r]
      /\ response[r].results = results[r]

\* C12: a failed update of the submission is logged, and the request still
\* answers 200 with success: true, the submission id and the results of
\* dispatch.
C12_UpdateFailureLogged ==
  [][\A r \in Requests :
       "update_failed" \in Range(trace'[r]) /\ "update_failed" \notin Range(trace[r]) =>
         /\ Len(errorLog'[r]) > Len(errorLog[r])
         /\ response'[r].status = 200
         /\ response'[r].success = TRUE
         /\ response'[r].submissionId = submission[r]
         /\ response'[r].results = results[r]]_vars

\* C13: when dispatch completes there are as many outcome entries as enabled
\* configurations of a registered type (types may repeat), and each
\* configuration's entry is the result of its own handler call.
C13_OneOutcomePerConfiguration ==
  \A r \in Requests :
    DispatchDone(r) =>
      /\ Cardinality(DOMAIN results[r]) = Cardinality(Registered(r))
      /\ \A j \in Registered(r) :
           \E i \in 1..Len(invocations[r]) :
             /\ invocations[r][i].position = j
             /\ invocations[r][i].type \in DOMAIN results[r]
             /\ results[r][invocations[r][i].type].success = invocations[r][i].success

\* C14: a configuration that is not enabled, or whose type has no registered
\* handler, never has a handler called for it and never gets an outcome entry.
C14_SkippedNeverInvoked ==
  \A r \in Requests :
    /\ \A i \in 1..Len(invocations[r]) : invocations[r][i].position \in Registered(r)
    /\ \A type \in DOMAIN results[r] :
         \E j \in Registered(r) : Flatten(connector[r].destinations).array[j].type = type

\* C15: a handler that throws does not stop the loop: when dispatch is done,
\* every enabled configuration whose registered type occurs once has been
\* called and has its outcome, success: false with a non-empty error and a
\* timestamp if its handler threw, success: true if it returned.
C15_FailureIsolated ==
  \A r \in Requests :
    DispatchDone(r) =>
      LET flat == Flatten(connector[r].destinations).array
      IN  \A j \in Registered(r) :
            (\A k \in Registered(r) : flat[k].type = flat[j].type => k = j) =>
              /\ flat[j].type \in DOMAIN results[r]
              /\ \E i \in 1..Len(invocations[r]) :
                   /\ invocations[r][i].position = j
                   /\ results[r][flat[j].type].success = invocations[r][i].success
              /\ LET outcome == results[r][flat[j].type]
                 IN  IF outcome.success
                     THEN outcome = [success |-> TRUE]
                     ELSE /\ DOMAIN outcome = {"success", "error", "timestamp"}
                          /\ outcome.error # ""

C15_Witness ==
  \E r \in Requests :
    /\ Status(r) = 200
    /\ Len(invocations[r]) = 2
    /\ ~invocations[r][1].success /\ invocations[r][2].success
    /\ DOMAIN results[r] = {"sms", "email"}
    /\ ~results[r]["sms"].success /\ results[r]["email"].success

\* the rows of the submissions table request r wrote, as steps of its trace
Writes(r) == SelectSeq(trace[r], LAMBDA step : step \in {"insert", "update"})

\* C17: a request whose insert succeeded writes its row exactly twice: the
\* insert, with the form data and an empty outcome mapping, and one update
\* with the final outcomes, issued after its last handler call.
C17_WrittenExactlyTwice ==
  \A r \in Requests :
    Inserted(r) =>
      /\ pc[r] = "done" => Writes(r) = <<"insert", "update">>
      /\ pc[r] \in {"handler"} =>
           /\ Writes(r) = <<"insert">>
           /\ submissions[submission[r]].destinations_sent = << >>
           /\ submissions[submission[r]].form_data = req[r].body
      /\ \A i, k \in 1..Len(trace[r]) :
           trace[r][i] = "update" /\ trace[r][k] = "handler" => k < i


(***************************************************************************)
(* Properties of the store shared with the dashboard                       *)
(* (checked under SpecStore and SpecList)                                  *)
(***************************************************************************)
\* a list whose elements are all configurations
IsFlatList(value) ==
  /\ IsArray(value)
  /\ \A j \in 1..Len(value.array) : ~IsNull(value.array[j]) /\ ~IsArray(value.array[j])

\* the handler calls of a request, in order, without how they ended
Calls(r) ==
  [i \in 1..Len(invocations[r]) |->
     [position |-> invocations[r][i].position, type |-> invocations[r][i].type]]

\* how the handler calls of a request ended, in order
Endings(r) == [i \in 1..Len(invocations[r]) |-> invocations[r][i].success]

\* an outcome mapping without the times of its failures
Untimed(mapping) ==
  [type \in DOMAIN mapping |->
     IF mapping[type].success THEN mapping[type]
     ELSE [success |-> FALSE, error |-> mapping[type].error]]

\* C16: for a flat list L of configurations, dispatching [L] calls the same
\* handlers in the same order as dispatching L and, the handlers ending the
\* same way, yields the same outcome mapping.
C16_NestedSameAsFlat ==
  \A r, q \in Requests :
    ( /\ DispatchDone(r) /\ DispatchDone(q)
      /\ IsFlatList(connector[r].destinations)
      /\ connector[q].destinations = JsonArray(<< connector[r].destinations >>) ) =>
        /\ Calls(q) = Calls(r)
        /\ Endings(q) = Endings(r) => Untimed(results[q]) = Untimed(results[r])

C16_Witness ==
  \E r, q \in Requests :
    /\ Status(r) = 200 /\ Status(q) = 200
    /\ IsFlatList(connector[r].destinations)
    /\ connector[q].destinations = JsonArray(<< connector[r].destinations >>)
    /\ Len(invocations[r]) = 2 /\ Calls(q) = Calls(r)
    /\ Endings(q) = Endings(r)
    /\ DOMAIN results[q] = {"sms", "email"}

\* C18 (as stated): no reader sees a submission between its insert and its
\* update: no listing contains a row whose request was still between the two
\* writes when the rows were read.
C18_NeverObservedBetweenWrites ==
  listing # None =>
    \A i \in 1..Len(listing.data) : listing.data[i].request \notin listing.inFlight

\* C18: between the insert of a submission and its update no other request
\* mutates the row: rows are never removed, and the only step that changes a
\* row is the update of the request that inserted it. (A listing may read the
\* row in between, with its empty outcome mapping.)
C18_SingleWriter ==
  [][/\ Len(submissions') >= Len(submissions)
     /\ \A i \in 1..Len(submissions) :
          submissions'[i] # submissions[i] =>
            /\ pc[submissions[i].request] = "update"
            /\ pc'[submissions[i].request] = "done"
            /\ submission[submissions[i].request] = i
            /\ submissions'[i] =
                 [submissions[i] EXCEPT !.destinations_sent = results[submissions[i].request]]]_vars

C18_Witness ==
  /\ pc[1] \in {"handler", "update"} /\ Inserted(1)
  /\ submissions[submission[1]].destinations_sent = << >>
  /\ Status(2) = 200 /\ Inserted(2)
  /\ submissions[submission[2]].destinations_sent # << >>
  /\ req[1].connectorId = req[2].connectorId
  /\ listing # None /\ Len(listing.data) = Len(submissions)
  /\ 1 \in listing.inFlight

\* C19: once a connector's is_active is false, no submission is inserted for
\* it, whatever the interleaving of the PUT with the requests in flight.
C19_NoInsertOnceInactive ==
  [][\A id \in Identifiers :
       connectors[id] # NoRow /\ connectors[id].is_active = "false" =>
         \A i \in (Len(submissions) + 1)..Len(submissions') :
           submissions'[i].connector_id # id]_vars


(***************************************************************************)
(* Properties of the retrying handlers (checked under SpecH)               *)
(***************************************************************************)
\* C20: in the email, slack and sheets handlers an attempt that fails with a
\* configuration error (a missing config field or credential, a malformed
\* URL, resource not found, permission denied) is the last one: the handler
\* throws, with no wait and no further attempt after it.
C20_ConfigErrorNotRetried ==
  hcall # None =>
    \A i \in 1..Len(hcall.errors) :
      hcall.errors[i].class = "config" =>
        /\ i = Len(hcall.errors)
        /\ hcall.pc = "threw"
        /\ Len(hcall.waits) = i - 1

\* C21: in the email, slack and sheets handlers an attempt that fails with a
\* transient error (network failure, 5xx, timeout, downstream rate limit) is
\* followed by another attempt while the attempt limit is not reached,
\* whatever the text of the error: after such a failure the handler is
\* waiting for, or has started, the next attempt.
C21_TransientRetried ==
  hcall # None =>
    \A i \in 1..Len(hcall.errors) :
      hcall.errors[i].class = "transient" /\ i < hcall.maxRetries =>
        \/ hcall.attempt > i
        \/ hcall.attempt = i /\ hcall.pc = "waiting"

\* C22: the first attempt is made without a wait and, after the n-th failed
\* attempt, the handler waits 2^(n-1) seconds before attempt n+1; there are
\* never more attempts than the handler's maximum.
C22_ExponentialBackoff ==
  hcall # None =>
    /\ Len(hcall.waits) = IF hcall.pc = "waiting" THEN hcall.attempt
                          ELSE IF hcall.attempt = 0 THEN 0 ELSE hcall.attempt - 1
    /\ \A n \in 1..Len(hcall.waits) : hcall.waits[n] = 2^(n - 1) * 1000
    /\ hcall.attempt <= hcall.maxRetries

\* C23: when the failed attempt carries a Retry-After value (a Slack 429
\* response), the wait before the next attempt is that many seconds.
C23_RetryAfterHonoured ==
  hcall # None =>
    \A n \in 1..Len(hcall.waits) :
      hcall.errors[n].retryAfter # 0 => hcall.waits[n] = hcall.errors[n].retryAfter * 1000

(***************************************************************************)
(* Properties of a request with the handlers it calls                      *)
(* (checked under SpecSend)                                                *)
(***************************************************************************)
\* the handler calls of request r that made every attempt the handler has
\* and saw each one fail with a transient error
Exhausted(r) ==
  {i \in 1..Len(invocations[r]) :
     LET call == invocations[r][i].call
     IN  /\ call.handler \in Retrying
         /\ call.pc = "threw"
         /\ Len(call.errors) = call.maxRetries
         /\ \A n \in 1..Len(call.errors) : call.errors[n].class = "transient"}

\* C24: when every attempt of a retrying handler has failed with a retryable
\* error, the error it throws contains the number of attempts made and the
\* message of the last underlying error, and the coordinator records that
\* message as the error of the destination.
C24_FinalErrorRecorded ==
  \A r \in Requests : \A i \in Exhausted(r) :
    LET call == invocations[r][i].call
        last == call.errors[Len(call.errors)]
    IN  /\ Includes(call.thrown, ToString(Len(call.errors)))
        /\ \A phrase \in Range(last.message) : Includes(call.thrown, phrase)
        /\ results[r][invocations[r][i].type].error = call.thrown

\* C25: a request to a connector with one enabled destination whose send
\* fails with a retryable error on every attempt: the handler makes 4
\* attempts, the outcome of the type is success: false with an error that
\* contains 'after 4 attempt(s)' and a timestamp, and the response is 200
\* with success: true.
C25_FourAttemptsThen200 ==
  \A r \in Requests :
    ( /\ pc[r] = "done"
      /\ Len(invocations[r]) = 1
      /\ Len(Flatten(connector[r].destinations).array) = 1
      /\ LET call == invocations[r][1].call
         IN  /\ call.handler \in Retrying
             /\ call.pc = "threw"
             /\ call.errors # << >>
             /\ \A n \in 1..Len(call.errors) :
                  ~NoRetry(call.handler, call.errors[n].message) ) =>
        LET call == invocations[r][1].call
            outcome == results[r][invocations[r][1].type]
        IN  /\ Len(call.errors) = 4
            /\ outcome.success = FALSE
            /\ outcome.error = FinalError(call.handler, 4, call.errors[Len(call.errors)])
            /\ "timestamp" \in DOMAIN outcome
            /\ response[r].status = 200
            /\ response[r].success = TRUE

\* C26: an enabled destination of type sms or webhook fails on its first and
\* only attempt with a 'not yet implemented' error and is recorded as
\* success: false with that error: never as success: true, and when the loop
\* is done no such destination is missing from the mapping.
C26_UnimplementedRecordedAsFailure ==
  \A r \in Requests :
    /\ \A i \in 1..Len(invocations[r]) :
         invocations[r][i].type \in Unimplemented =>
           LET call == invocations[r][i].call
               outcome == results[r][invocations[r][i].type]
           IN  /\ call.pc = "threw"
               /\ call.errors = << >> /\ call.waits = << >>
               /\ Includes(call.thrown, "not yet implemented")
               /\ outcome.success = FALSE
               /\ outcome.error = call.thrown
               /\ \A k \in 1..Len(invocations[r]) :
                    invocations[r][k].position = invocations[r][i].position => k = i
    /\ DispatchDone(r) =>
         \A j \in Registered(r) :
           Flatten(connector[r].destinations).array[j].type \in Unimplemented =>
             /\ \E i \in 1..Len(invocations[r]) : invocations[r][i].position = j
             /\ Flatten(connector[r].destinations).array[j].type \in DOMAIN results[r]

C26_Witness ==
  \E r \in Requests :
    /\ Status(r) = 200
    /\ Len(invocations[r]) = 2
    /\ invocations[r][1].type = "webhook" /\ invocations[r][2].success
    /\ ~response[r].results["webhook"].success
    /\ response[r].results["slack"].success

\* C27: a request that passes all gates, with one enabled destination whose
\* send succeeds on the first attempt (and whose calls of the store do not
\* reject): the submission is inserted, the send is performed exactly once,
\* and the results of the 200 response are the mapping the update writes to
\* the submission, { <type>: { success: true } }.
C27_FirstAttemptSuccess ==
  \A r \in Requests :
    ( /\ pc[r] = "done"
      /\ "threw" \notin Range(trace[r])
      /\ Len(invocations[r]) = 1
      /\ Len(Flatten(connector[r].destinations).array) = 1
      /\ invocations[r][1].call.handler \in Retrying
      /\ invocations[r][1].call.pc = "returned"
      /\ invocations[r][1].call.attempt = 1 ) =>
        /\ PassedAllGates(r)
        /\ Inserted(r)
        /\ invocations[r][1].call.errors = << >>
        /\ invocations[r][1].call.waits = << >>
        /\ response[r].status = 200
        /\ response[r].results = results[r]
        /\ results[r] = (invocations[r][1].type :> [success |-> TRUE])
        /\ "updated" \in Range(trace[r]) =>
             submissions[submission[r]].destinations_sent = response[r].results

C27_Witness ==
  \E r \in Requests :
    /\ Status(r) = 200
    /\ Len(invocations[r]) = 1
    /\ invocations[r][1].type = "email"
    /\ invocations[r][1].call.pc = "returned"
    /\ invocations[r][1].call.attempt = 1
    /\ "updated" \in Range(trace[r])
    /\ submissions[submission[r]].destinations_sent = ("email" :> [success |-> TRUE])

(***************************************************************************)
(* Properties of validateSubmission (checked under SpecV)                  *)
(***************************************************************************)
\* validateSubmission has returned or thrown
Validated == vcall # None /\ vcall.verdict # None

\* the rules of the validator that the fields of a run violate: (4) the name
\* is a non-empty string of at most 255 characters, (5) the value is null, a
\* string, a number or a boolean, (6) a string has at most 10,000 characters,
\* (7) a number is finite and in the safe-integer range
RulesViolated(run) ==
  (IF run.name = 0 \/ run.name > 255 THEN {4} ELSE {})
    \cup (IF run.value.kind \in {"object", "array"} THEN {5} ELSE {})
    \cup (IF run.value.kind = "string" /\ run.value.length > 10000 THEN {6} ELSE {})
    \cup (IF run.value.kind \in {"infinite", "unsafe"} THEN {7} ELSE {})

\* C28: every object payload whose serialized size exceeds 100 KiB is
\* rejected with the size reason, and every object payload within the size
\* limit that has more than 50 fields is rejected with the count reason,
\* whatever its fields contain.
C28_SizeAndCountRejected ==
  Validated /\ vcall.formData.shape = "object" =>
    /\ SerializedBytes(vcall.formData.fields) > 100 * 1024 => vcall.verdict.rule = 2
    /\ ( /\ SerializedBytes(vcall.formData.fields) <= 100 * 1024
         /\ FieldCount(vcall.formData.fields) > 50 ) => vcall.verdict.rule = 3

\* the runs of a payload whose values are nested objects or arrays
NonScalar(runs) == {n \in 1..Len(runs) : runs[n].value.kind \in {"object", "array"}}
\* the positions of the fields of run n
Positions(runs, n) == (FieldsBefore(runs, n) + 1)..(FieldsBefore(runs, n) + runs[n].count)

\* C29 (as stated): a payload with a field whose value is a nested object or
\* an array fails validation, and the reason names that field.
C29_NonScalarFieldNamed ==
  Validated /\ NonScalar(vcall.formData.fields) # {} =>
    /\ vcall.verdict.rule = 5
    /\ \E n \in NonScalar(vcall.formData.fields) :
         vcall.verdict.field \in Positions(vcall.formData.fields, n)

\* C29: a payload with a field whose value is a nested object or an array
\* fails validation; the reason is the type reason and names the first such
\* field when the payload is within the size and count limits, no field
\* before it violates a rule and its own name is valid.
C29_NonScalarRejected ==
  Validated /\ NonScalar(vcall.formData.fields) # {} =>
    LET runs == vcall.formData.fields
        n == SetMin(NonScalar(runs))
    IN  /\ vcall.verdict.rule # 0
        /\ ( /\ SerializedLength(runs) <= 100 * 1024
             /\ FieldCount(runs) <= 50
             /\ \A k \in 1..(n - 1) : RulesViolated(runs[k]) = {}
             /\ 4 \notin RulesViolated(runs[n]) ) =>
               vcall.verdict = Verdict(5, FieldsBefore(runs, n) + 1)

C29_Witness ==
  /\ Validated
  /\ Len(vcall.formData.fields) = 2
  /\ vcall.formData.fields[1].count = 1
  /\ vcall.formData.fields[1].value.kind = "string"
  /\ vcall.formData.fields[2].value.kind = "array"
  /\ vcall.verdict = Verdict(5, 2)

\* the rules a payload violates, the size being what the validator measures
Violations(formData) ==
  IF formData.shape # "object" THEN {1}
  ELSE (IF SerializedLength(formData.fields) > 100 * 1024 THEN {2} ELSE {})
         \cup (IF FieldCount(formData.fields) > 50 THEN {3} ELSE {})
         \cup UNION { RulesViolated(formData.fields[n]) : n \in 1..Len(formData.fields) }

\* C30 (as stated): the reason reported for a payload is that of the
\* lowest-numbered rule the payload violates.
C30_LowestRuleReported ==
  Validated =>
    vcall.verdict.rule = IF Violations(vcall.formData) = {} THEN 0
                         ELSE SetMin(Violations(vcall.formData))

\* C30: the checks are made in the order object shape, serialized size, field
\* count, and then field by field, in the order of the entries, name, value
\* type, string length, number range; the reason reported is that of the
\* first check that fails, and the payload passes if none does.
C30_FirstFailureInFieldOrder ==
  Validated =>
    LET formData == vcall.formData
        runs == formData.fields
        payloadRules == Violations(formData) \cap {1, 2, 3}
        atFault == {n \in 1..Len(runs) : RulesViolated(runs[n]) # {}}
    IN  IF payloadRules # {}
          THEN vcall.verdict = Verdict(SetMin(payloadRules), 0)
        ELSE IF atFault = {} THEN vcall.verdict = Passes
        ELSE /\ vcall.verdict.rule = SetMin(RulesViolated(runs[SetMin(atFault)]))
             /\ vcall.verdict.field \in {0, FieldsBefore(runs, SetMin(atFault)) + 1}

C30_Witness ==
  /\ Validated
  /\ Len(vcall.formData.fields) = 2
  /\ RulesViolated(vcall.formData.fields[1]) = {6}
  /\ RulesViolated(vcall.formData.fields[2]) = {4, 5}
  /\ vcall.verdict = Verdict(6, 1)

ThrewOutsideInnerTry(r) ==
  /\ req[r] # None
  /\ \/ req[r].body = "unparseable"
     \/ "threw" \in Range(trace[r])

HtmlEntities == { HtmlEntity(char) : char \in {"&", "<", ">", "\"", "'"} }
\* the text holds none of < > " ' and each & of it starts an entity
NoRawMarkup(text) ==
  \A i \in 1..Len(text) :
    /\ text[i] \notin {"<", ">", "\"", "'"}
    /\ text[i] = "&" =>
         \E entity \in HtmlEntities :
           /\ i + Len(entity) - 1 <= Len(text)
           /\ SubSeq(text, i, i + Len(entity) - 1) = entity
\* the notification has been built
Rendered == notification # None /\ notification.out # None
\* the text that payload fields and the connector name contribute to the
\* fields of the given formats is escaped
EscapedIn(formats) ==
  Rendered =>
    \A i \in 1..Len(notification.out.segments) :
      LET segment == notification.out.segments[i]
      IN  (segment.format \in formats /\ segment.from # "template") =>
            NoRawMarkup(segment.text)

\* C33: every payload field name, payload value and connector name that a
\* handler interpolates into markup is escaped first, in the HTML of the email
\* and in the mrkdwn blocks of the Slack notification alike: what they contribute
\* holds no raw <, >, ", ' and no unescaped &.
C33_MarkupEscaped == EscapedIn({"html", "mrkdwn"})

\* a call of a retrying handler is under way
Running == IF hcall = None THEN FALSE ELSE hcall.pc \in {"attempting", "waiting"}
\* a call of a retrying handler has returned or thrown
Ended == IF hcall = None THEN FALSE ELSE hcall.pc \in {"returned", "threw"}
\* the attempts of the call are within its limit, and it waits only between
\* two attempts: one wait for each attempt but the last one made
WithinLimit ==
  hcall # None =>
    /\ hcall.attempt <= hcall.maxRetries
    /\ Len(hcall.errors) <= hcall.attempt
    /\ hcall.pc = "waiting" => Len(hcall.waits) = hcall.attempt /\ hcall.attempt < hcall.maxRetries
    /\ hcall.pc # "waiting" /\ hcall.attempt >= 1 => Len(hcall.waits) = hcall.attempt - 1
    /\ hcall.pc = "returned" => Len(hcall.errors) = hcall.attempt - 1
\* a call that has ended does nothing more: the next step of the handler
\* machine is a new call
NothingAfterEnd ==
  Ended => \E handler \in Retrying : \E setup \in Setups(handler) :
             hcall' = Entered(handler, setup)

Rejected == rl.op = "rateLimit" /\ ~rl.allowed

\* C35: a rateLimit call that rejects appends no timestamp: what is stored
\* for the identifier afterwards is what was stored before, less the expired
\* timestamps (pruned by the call, or by the sweep it triggers), and the time
\* at which the identifier is admitted again, oldest counted timestamp plus
\* window, is not moved by the rejected call.
C35_RejectionAppendsNothing ==
  Rejected =>
    /\ MapGet(requestMap, rl.identifier) =
         FilterValid(rl.pre, (IF rl.swept THEN rl.cleanupNow ELSE rl.now) - windowMs)
    /\ rl.pre # << >> =>
         /\ FilterValid(rl.pre, rl.now - windowMs) # << >>
         /\ rl.resetTime = MathMin(FilterValid(rl.pre, rl.now - windowMs)) + windowMs
\* a request was rejected at a time not yet stored for its identifier, and
\* the stored sequence is still what it was
C35_Witness ==
  /\ Rejected
  /\ rl.pre # << >>
  /\ rl.now \notin Range(rl.pre)
  /\ MapGet(requestMap, rl.identifier) = rl.pre

\* C36: a rateLimit call for identifier A that triggers no sweep leaves what
\* is stored for every other identifier B as it was, and the decision of a
\* call depends on its own identifier's in-window timestamps only: it admits
\* exactly when fewer than maxRequests of them are stored.
C36_IdentifiersIndependent ==
  [][(rl' # rl /\ rl'.op = "rateLimit") =>
       /\ ~rl'.swept =>
            \A B \in Identifiers \ {rl'.identifier} :
              /\ B \in DOMAIN requestMap' <=> B \in DOMAIN requestMap
              /\ MapGet(requestMap', B) = MapGet(requestMap, B)
       /\ rl'.allowed <=>
            Cardinality({i \in 1..Len(MapGet(requestMap, rl'.identifier)) :
                           MapGet(requestMap, rl'.identifier)[i] > rl'.now - windowMs})
              < maxRequests]_vars
\* a call without sweep was rejected while another identifier, with
\* in-window timestamps of its own, is tracked beside it
C36_Witness ==
  /\ Rejected
  /\ ~rl.swept
  /\ \E B \in DOMAIN requestMap :
       /\ B # rl.identifier
       /\ InWindowCount(requestMap[B], rl.now) >= 1
       /\ InWindowCount(requestMap[B], rl.now) < maxRequests

\* C37: with one maxRequests and one window for all calls, the timestamps
\* stored for an identifier that lie inside the window never number more
\* than maxRequests.
C37_StoredWithinLimit ==
  \A identifier \in DOMAIN requestMap :
    InWindowCount(requestMap[identifier], clock) <= maxRequests
\* an identifier holds maxRequests in-window timestamps and was just rejected
C37_Witness ==
  /\ Rejected
  /\ maxRequests = MaxLimit
  /\ rl.identifier \in DOMAIN requestMap
  /\ InWindowCount(requestMap[rl.identifier], clock) = maxRequests

\* the request got past the rate-limit gate: it was answered something other
\* than 429 and its body was parsed
PastRateLimit(r) ==
  /\ pc[r] \notin {"idle", "parse"}
  /\ req[r].body # "unparseable"
  /\ Status(r) # 429

\* C38: every request the rate-limit gate admits takes one slot of its
\* identifier's window, whatever becomes of it: at any time the in-window
\* timestamps stored for an identifier are those of the requests admitted for
\* it inside the window, the ones answered 400, 404, 403 or 500 among them,
\* whether or not a connector has the identifier.
C38_AdmittedConsumesSlot ==
  /\ \A r \in Requests :
       PastRateLimit(r) => r \in Admitted(req[r].connectorId)
  /\ \A id \in Identifiers :
       InWindowCount(MapGet(requestMap, id), clock) =
         Cardinality({r \in Admitted(id) : rateLimitResult[r].at > clock - windowMs})
\* a request for an identifier without connector was answered 400, and the
\* next one for it, inside the window, 429
C38_Witness ==
  /\ maxRequests = 1
  /\ Status(1) = 400 /\ Status(2) = 429
  /\ req[1].connectorId = req[2].connectorId
  /\ connectors[req[1].connectorId] = NoRow

\* C39: the active gate admits a request only when is_active is exactly
\* true: for a connector whose flag is false, null or absent the request is
\* answered 403 CONNECTOR_INACTIVE and inserts no submission.
C39_ExactlyTrue ==
  \A r \in Requests :
    (connector[r] # None /\ connector[r].is_active # "true") =>
      /\ pc[r] = "done"
      /\ response[r] = [status |-> 403, code |-> "CONNECTOR_INACTIVE"]
      /\ ~Inserted(r)
\* a request found a connector whose flag is null, the other one a connector
\* whose flag is absent
C39_Witness ==
  \E r, q \in Requests :
    /\ Status(r) = 403 /\ Status(q) = 403
    /\ connector[r].is_active \in {"null", "absent"}
    /\ r # q => connector[q].is_active \in {"null", "absent"}
    /\ r # q

\* the body of the request cannot be parsed
Unparseable(r) == IF req[r] = None THEN FALSE ELSE req[r].body = "unparseable"

=============================================================================
